---- MODULE Spec2Model ----
(***************************************************************************)
(* MacroMeter: the meal-query resolution pipeline of the Cloud Function    *)
(* functions/index.js (parseItems, searchFood, exports.searchFood).        *)
(*                                                                         *)
(* Text is a sequence of one-character strings, so that splitting,         *)
(* trimming and matching are computed character by character.  Numbers are *)
(* exact rationals [n, d]; the quantities and nutrient values the model    *)
(* draws are dyadic (halves and quarters), for which IEEE doubles add and  *)
(* multiply without rounding error, so the exact arithmetic below is the   *)
(* arithmetic the JavaScript performs on these inputs.                     *)
(***************************************************************************)
EXTENDS Integers, Sequences, FiniteSets, TLC

(***************************************************************************)
(* Characters                                                              *)
(***************************************************************************)
Digits == <<"0", "1", "2", "3", "4", "5", "6", "7", "8", "9">>
UpperCase == <<"A", "B", "C", "D", "E", "F", "G", "H", "I", "J", "K", "L", "M",
               "N", "O", "P", "Q", "R", "S", "T", "U", "V", "W", "X", "Y", "Z">>
LowerCase == <<"a", "b", "c", "d", "e", "f", "g", "h", "i", "j", "k", "l", "m",
               "n", "o", "p", "q", "r", "s", "t", "u", "v", "w", "x", "y", "z">>

Range(f) == {f[i] : i \in DOMAIN f}

\* \d of the regular expressions
IsDigit(c) == c \in Range(Digits)

DigitVal(c) == (CHOOSE i \in DOMAIN Digits : Digits[i] = c) - 1

\* \s of the regular expressions and the characters String.prototype.trim removes
IsSpace(c) == c \in {" ", "\t", "\n", "\r"}

\* the characters "." of a regular expression does not match
IsLineTerminator(c) == c \in {"\n", "\r"}

\* String.prototype.toLowerCase on one character; also the folding of the /i flag
ToLower(c) ==
    IF c \in Range(UpperCase)
    THEN LowerCase[CHOOSE i \in DOMAIN UpperCase : UpperCase[i] = c]
    ELSE c

LowerStr(s) == [i \in DOMAIN s |-> ToLower(s[i])]

\* s.slice(from - 1, to) with 1-based inclusive bounds
Slice(s, from, to) == IF from > to THEN <<>> ELSE SubSeq(s, from, to)

(***************************************************************************)
(* Numbers                                                                 *)
(***************************************************************************)
RECURSIVE Gcd(_, _)
Gcd(a, b) == IF b = 0 THEN a ELSE Gcd(b, a % b)

\* the number n/d in lowest terms (n >= 0, d > 0)
Rat(n, d) == LET g == Gcd(n, d) IN [n |-> n \div g, d |-> d \div g]

Zero == Rat(0, 1)
One == Rat(1, 1)

RAdd(x, y) == Rat(x.n * y.d + y.n * x.d, x.d * y.d)
RMul(x, y) == Rat(x.n * y.n, x.d * y.d)

\* Math.round: the nearest integer, halves rounded up
MathRound(x) == (2 * x.n + x.d) \div (2 * x.d)

RECURSIVE Pow10(_)
Pow10(k) == IF k = 0 THEN 1 ELSE 10 * Pow10(k - 1)

RECURSIVE DigitsToNat(_)
DigitsToNat(s) ==
    IF s = <<>> THEN 0
    ELSE 10 * DigitsToNat(SubSeq(s, 1, Len(s) - 1)) + DigitVal(s[Len(s)])

\* parseFloat on a token of the form \d+(\.\d+)?
ParseFloat(tok) ==
    LET dots == {i \in DOMAIN tok : tok[i] = "."}
    IN  IF dots = {} THEN Rat(DigitsToNat(tok), 1)
        ELSE LET p == CHOOSE i \in dots : TRUE
                 frac == Slice(tok, p + 1, Len(tok))
             IN  Rat(DigitsToNat(Slice(tok, 1, p - 1)) * Pow10(Len(frac)) + DigitsToNat(frac),
                     Pow10(Len(frac)))

RECURSIVE NatToStr(_)
NatToStr(n) ==
    IF n < 10 THEN <<Digits[n + 1]>>
    ELSE NatToStr(n \div 10) \o <<Digits[(n % 10) + 1]>>

RECURSIVE FracToStr(_, _)
FracToStr(r, d) ==
    IF r = 0 THEN <<>>
    ELSE <<Digits[((10 * r) \div d) + 1]>> \o FracToStr((10 * r) % d, d)

\* Number to string as a template literal does it, for a finite decimal in the
\* range where JavaScript prints plain decimal notation
NumToStr(x) ==
    IF x.n % x.d = 0 THEN NatToStr(x.n \div x.d)
    ELSE NatToStr(x.n \div x.d) \o <<".">> \o FracToStr(x.n % x.d, x.d)

(***************************************************************************)
(* parseItems                                                              *)
(***************************************************************************)
\* does the separator /,| and /i match at position i of s, and how long is the match
SepLenAtCaseSensitive(s, i) ==
    IF s[i] = "," THEN 1
    ELSE IF i + 4 <= Len(s) /\ SubSeq(s, i, i + 4) = <<" ", "a", "n", "d", " ">>
         THEN 5
         ELSE 0
SepLenAt(s, i) ==
    IF s[i] = "," THEN 1
    ELSE IF i + 4 <= Len(s) /\ LowerStr(SubSeq(s, i, i + 4)) = <<" ", "a", "n", "d", " ">>
         THEN 5
         ELSE 0

\* query.split(/,| and /i): the pieces between the leftmost non-overlapping matches
RECURSIVE SplitFrom(_, _, _)
SplitFrom(s, i, cur) ==
    IF i > Len(s) THEN <<cur>>
    ELSE LET k == SepLenAt(s, i)
         IN  IF k > 0 THEN <<cur>> \o SplitFrom(s, i + k, <<>>)
             ELSE SplitFrom(s, i + 1, Append(cur, s[i]))

Split(s) == SplitFrom(s, 1, <<>>)

RECURSIVE TrimLeft(_)
TrimLeft(s) == IF s /= <<>> /\ IsSpace(s[1]) THEN TrimLeft(Tail(s)) ELSE s

RECURSIVE TrimRight(_)
TrimRight(s) ==
    IF s /= <<>> /\ IsSpace(s[Len(s)]) THEN TrimRight(SubSeq(s, 1, Len(s) - 1)) ELSE s

Trim(s) == TrimRight(TrimLeft(s))

\* .map(s => s.trim()).filter(s => s)
PartsUnfiltered(query) ==
    LET pieces == Split(query)
    IN  [i \in DOMAIN pieces |-> Trim(pieces[i])]
PartsUntrimmed(query) == SelectSeq(Split(query), LAMBDA p : p /= <<>>)
Parts(query) ==
    LET pieces == Split(query)
    IN  SelectSeq([i \in DOMAIN pieces |-> Trim(pieces[i])], LAMBDA p : p /= <<>>)

\* the alternatives of group 1 of /^(\d+(\.\d+)?|a|an)\s+(.*)/i
IsNumberToken(tok) ==
    /\ tok /= <<>>
    /\ \A i \in DOMAIN tok : IsDigit(tok[i]) \/ tok[i] = "."
    /\ Cardinality({i \in DOMAIN tok : tok[i] = "."}) <= 1
    /\ IsDigit(tok[1])
    /\ IsDigit(tok[Len(tok)])

IsArticleToken(tok) == LowerStr(tok) \in {<<"a">>, <<"a", "n">>}

\* part.match(/^(\d+(\.\d+)?|a|an)\s+(.*)/i): group 1 must be followed by white
\* space, so it is the text before the first white-space character; \s+ takes
\* the whole run of white space; (.*) stops at the first line terminator
FirstSpace(part) ==
    IF \E i \in DOMAIN part : IsSpace(part[i])
    THEN CHOOSE i \in DOMAIN part : IsSpace(part[i]) /\ \A j \in 1..(i - 1) : ~IsSpace(part[j])
    ELSE 0

RECURSIVE UpToLineEnd(_)
UpToLineEnd(s) ==
    IF s = <<>> \/ IsLineTerminator(s[1]) THEN <<>> ELSE <<s[1]>> \o UpToLineEnd(Tail(s))

Match(part) ==
    LET k == FirstSpace(part)
        tok == Slice(part, 1, k - 1)
    IN  IF k > 1 /\ (IsNumberToken(tok) \/ IsArticleToken(tok))
        THEN [matched |-> TRUE, g1 |-> tok,
              g3 |-> UpToLineEnd(TrimLeft(Slice(part, k, Len(part))))]
        ELSE [matched |-> FALSE, g1 |-> <<>>, g3 |-> <<>>]

ParsePartDefaultZero(part) ==
    LET match == Match(part)
    IN  IF match.matched
        THEN [qty |-> IF LowerStr(match.g1) \in {<<"a">>, <<"a", "n">>}
                      THEN One
                      ELSE ParseFloat(match.g1),
              text |-> match.g3]
        ELSE [qty |-> Zero, text |-> part]
ParsePart(part) ==
    LET match == Match(part)
    IN  IF match.matched
        THEN [qty |-> IF LowerStr(match.g1) \in {<<"a">>, <<"a", "n">>}
                      THEN One
                      ELSE ParseFloat(match.g1),
              text |-> match.g3]
        ELSE [qty |-> One, text |-> part]

parseItems(query) ==
    LET parts == Parts(query)
    IN  [i \in DOMAIN parts |-> ParsePart(parts[i])]

(***************************************************************************)
(* searchFood: what one upstream answer is turned into                     *)
(***************************************************************************)
\* retries = 2, the default the handler always uses
Retries == 2
\* setTimeout(r, 300)
BackoffDelay == 300
\* pageSize of the upstream request
PageSize == 5

\* the value a lookup of a key that is absent yields
Undefined == [def |-> FALSE, v |-> Zero]
Defined(x) == [def |-> TRUE, v |-> x]

\* JavaScript truthiness of a number or undefined
Truthy(x) == x.def /\ x.v.n /= 0

\* a || b on numbers
OrElse(a, b) == IF Truthy(a) THEN a ELSE b

\* n.value || 0
ValueOrZero(n) == IF "value" \in DOMAIN n /\ n.value.n /= 0 THEN n.value ELSE Zero

\* nutrients[label] after the loop nutrients[n.nutrientName] = n.value || 0:
\* the last entry carrying the label decides
Lookup(list, label) ==
    LET hits == {i \in DOMAIN list : list[i].nutrientName = label}
    IN  IF hits = {} THEN Undefined
        ELSE Defined(ValueOrZero(list[CHOOSE i \in hits : \A j \in hits : j <= i]))

\* food.foodNutrients || []
NutrientList(food) == IF "foodNutrients" \in DOMAIN food THEN food.foodNutrients ELSE <<>>

\* data.foods || []
Foods(data) == IF "foods" \in DOMAIN data THEN data.foods ELSE <<>>

CaloriesOf(list) ==
    OrElse(Lookup(list, "Energy"),
           OrElse(Lookup(list, "Energy (Atwater General Factors)"), Defined(Zero))).v

FieldOf(list, label) == OrElse(Lookup(list, label), Defined(Zero)).v

\* the object the resolver returns for foods[0]
NutrientResult(food) ==
    LET nutrients == NutrientList(food)
    IN  [found    |-> TRUE,
         name     |-> food.description,
         calories |-> CaloriesOf(nutrients),
         protein  |-> FieldOf(nutrients, "Protein"),
         carbs    |-> FieldOf(nutrients, "Carbohydrate, by difference"),
         fat      |-> FieldOf(nutrients, "Total lipid (fat)")]

\* return null
Null == [found |-> FALSE]

\* attempt < retries
AttemptsRemainOnce(a) == a < Retries - 1
AttemptsRemain(a) == a < Retries

(***************************************************************************)
(* The upstream food database: the answers a call can get                  *)
(***************************************************************************)
Egg == [description |-> <<"E", "G", "G">>,
        foodNutrients |-> <<[nutrientName |-> "Energy", value |-> Rat(143, 2)],
                            [nutrientName |-> "Energy (Atwater General Factors)", value |-> Rat(70, 1)],
                            [nutrientName |-> "Protein", value |-> Rat(25, 4)],
                            [nutrientName |-> "Carbohydrate, by difference", value |-> Rat(1, 2)],
                            [nutrientName |-> "Total lipid (fat)", value |-> Rat(19, 4)]>>]

Tea == [description |-> <<"T", "E", "A">>,
        foodNutrients |-> <<[nutrientName |-> "Energy (Atwater General Factors)", value |-> Rat(5, 4)],
                            [nutrientName |-> "Protein", value |-> Rat(1, 4)],
                            [nutrientName |-> "Carbohydrate, by difference"],
                            [nutrientName |-> "Water", value |-> Rat(99, 1)]>>]

Ham == [description |-> <<"H", "A", "M">>]

\* kind: "throw" - fetch rejects; "http" - a response arrived; ok - response.ok;
\* json - response.json() parses; data - the parsed body
Responses ==
    { [kind |-> "throw"],
      [kind |-> "http", ok |-> FALSE],
      [kind |-> "http", ok |-> TRUE, json |-> FALSE],
      [kind |-> "http", ok |-> TRUE, json |-> TRUE, data |-> [totalHits |-> 0]],
      [kind |-> "http", ok |-> TRUE, json |-> TRUE, data |-> [foods |-> <<>>]],
      [kind |-> "http", ok |-> TRUE, json |-> TRUE, data |-> [foods |-> <<Egg, Tea>>]],
      [kind |-> "http", ok |-> TRUE, json |-> TRUE, data |-> [foods |-> <<Tea>>]],
      [kind |-> "http", ok |-> TRUE, json |-> TRUE, data |-> [foods |-> <<Ham, Egg>>]] }

IsThrow(r) == r.kind = "throw" \/ (r.kind = "http" /\ r.ok /\ ~r.json)
IsNotOk(r) == r.kind = "http" /\ ~r.ok
IsParsed(r) == r.kind = "http" /\ r.ok /\ r.json

(***************************************************************************)
(* exports.searchFood: the pieces of the handler                           *)
(***************************************************************************)
MsgMissingQuery ==
    <<"M", "i", "s", "s", "i", "n", "g", " ", "'", "q", "u", "e", "r", "y", "'", " ",
      "p", "a", "r", "a", "m", "e", "t", "e", "r">>
MsgNoApiKey ==
    <<"U", "S", "D", "A", " ", "A", "P", "I", " ", "k", "e", "y", " ", "n", "o", "t", " ",
      "c", "o", "n", "f", "i", "g", "u", "r", "e", "d">>

\* `No results for '${rawQuery}'`
MsgNoResults(q) ==
    <<"N", "o", " ", "r", "e", "s", "u", "l", "t", "s", " ", "f", "o", "r", " ", "'">> \o q \o <<"'">>

\* a request parameter object without the key "query"
NoParams == <<>>

\* req.query.query || req.body.query; undefined and "" are both falsy, and the
\* value is only used when it is truthy, so <<>> stands for either
RawQuery(r) ==
    IF "query" \in DOMAIN r.query /\ r.query.query /= <<>> THEN r.query.query
    ELSE IF "query" \in DOMAIN r.body THEN r.body.query
    ELSE <<>>

ZeroTotals == [calories |-> Zero, protein |-> Zero, carbs |-> Zero, fat |-> Zero]

\* result.<field> * item.qty
ContributionRounded(v, qty) == Rat(MathRound(RMul(v, qty)), 1)
Contribution(v, qty) == RMul(v, qty)

\* totalNutrients.<field> += result.<field> * item.qty, for the four fields
AddTo(t, result, qty) ==
    [calories |-> RAdd(t.calories, Contribution(result.calories, qty)),
     protein  |-> RAdd(t.protein, Contribution(result.protein, qty)),
     carbs    |-> RAdd(t.carbs, Contribution(result.carbs, qty)),
     fat      |-> RAdd(t.fat, Contribution(result.fat, qty))]

\* `${item.qty} x ${result.name}`
FoundEntryNameOnly(item, result) == result.name
FoundEntry(item, result) == NumToStr(item.qty) \o <<" ", "x", " ">> \o result.name

\* notFoundItems.push(item.text)
PushMissingFront(list, item) == <<item.text>> \o list
PushMissing(list, item) == Append(list, item.text)

\* list.join(", ")
RECURSIVE Join(_)
Join(list) ==
    IF list = <<>> THEN <<>>
    ELSE IF Len(list) = 1 THEN list[1]
    ELSE list[1] \o <<",", " ">> \o Join(Tail(list))

\* foundItems.length === 0
NoneFoundOrOne(found) == Len(found) <= 1
NoneFound(found) == Len(found) = 0

\* notFoundItems.length > 0
PartialIfSeveral(notFound) == Len(notFound) > 1
Partial(notFound) == Len(notFound) > 0

\* the body of the total-failure response
FailureBodyWithZeros(q) ==
    [found |-> FALSE, error |-> MsgNoResults(q), calories |-> 0, protein |-> 0,
     carbs |-> 0, fat |-> 0]
FailureBodyNoPhrase(q) == [found |-> FALSE, error |-> MsgNoResults(<<>>)]
FailureBody(q) == [found |-> FALSE, error |-> MsgNoResults(q)]

\* the body of the success response
SuccessBody(t, found, notFound) ==
    [found    |-> TRUE,
     name     |-> Join(found),
     calories |-> MathRound(t.calories),
     protein  |-> MathRound(t.protein),
     carbs    |-> MathRound(t.carbs),
     fat      |-> MathRound(t.fat),
     partial  |-> Partial(notFound),
     missing  |-> notFound]

\* the upstream request: api_key, query and pageSize
UpstreamRequest(key, text) == [api_key |-> key, query |-> text, pageSize |-> PageSize]

(***************************************************************************)
(* One request to exports.searchFood, from arrival to the response         *)
(***************************************************************************)
\* the largest number of items of a phrase the model sends
MaxItems == 3

AllPhrases ==
    { <<"t", "e", "a">>,
      <<",">>,
      <<"e", "g", "g", " ", "a", "n", "d", " ", "t", "e", "a">>,
      <<"2", " ", "e", "g", "g", " ", "a", "n", "d", " ", "a", " ", "t", "e", "a">>,
      <<"1", ".", "5", " ", "e", "g", "g", ",", " ", "h", "a", "m", ",", " ", "t", "e", "a">>,
      <<"0", ".", "5", " ", "e", "g", "g", ",", " ", "2", " ", "h", "a", "m", ",", " ",
        "t", "e", "a", " ", "a", "n", "d", " ", "1", ".", "5", " ", "e", "g", "g">> }

Phrases == {p \in AllPhrases : Len(parseItems(p)) <= MaxItems}

Requests ==
    {[query |-> [query |-> p], body |-> NoParams] : p \in Phrases}
    \cup { [query |-> NoParams, body |-> [query |-> <<"t", "e", "a">>]],
           [query |-> [query |-> <<>>], body |-> NoParams],
           [query |-> NoParams, body |-> NoParams] }

\* process.env.USDA_API_KEY: unset, or set
ApiKeys == {<<>>, <<"k", "e", "y">>}

VARIABLES
    req,             \* the incoming request
    apiKey,          \* process.env.USDA_API_KEY
    pc,              \* where the handler is
    rawQuery,        \* handler local
    items,           \* handler local
    idx,             \* position of the for-of loop in items
    totalNutrients,  \* handler local
    foundItems,      \* handler local
    notFoundItems,   \* handler local
    itemText,        \* parameter of the running searchFood call
    attempt,         \* loop counter of the running searchFood call
    inflight,        \* upstream requests sent and not yet answered
    timers,          \* backoff timers set and not yet fired
    sent,            \* the responses written to res
    trace,           \* what the running (or last) searchFood call did, in order
    results,         \* the value each finished searchFood call returned, in order
    failures,        \* for each finished searchFood call, how many of its attempts failed
    stub,            \* the answers of a stubbed upstream, when one is used
    console,         \* the levels of the console lines the function has written
    state,           \* the client's state object
    localStorage,    \* the browser's localStorage: key -> stored JSON text
    today,           \* the calendar date getToday() returns
    now,             \* the time of day: Date.now() is DateNow
    opened,          \* the calendar date of the page load
    lookupBtn,       \* elements.lookupBtn: whether the button is disabled
    fetches          \* the requests lookupMeal() has sent since the page load, in order

serverVars ==
    <<req, apiKey, pc, rawQuery, items, idx, totalNutrients, foundItems, notFoundItems,
      itemText, attempt, inflight, timers, sent, trace, results, failures, stub, console>>

clientVars == <<state, localStorage, today, now, opened, lookupBtn, fetches>>

vars == <<serverVars, clientVars>>

handlerLocals ==
    <<rawQuery, items, idx, totalNutrients, foundItems, notFoundItems, results, failures>>

\* the attempts in a trace that ended in a thrown error or a non-success status
Failed(t) == Cardinality({k \in DOMAIN t : t[k] \in {"error", "status"}})

\* the console line an event of the resolver writes: console.log on lines 43 and
\* 76, console.error on lines 48 and 80
Logged(ev) ==
    IF ev \in {"request", "miss"} THEN {"log"}
    ELSE IF ev \in {"status", "error"} THEN {"error"}
    ELSE {}

(***************************************************************************)
(* The client application before anything has happened in it               *)
(***************************************************************************)
\* state.pendingMeal = null
NoMeal == [name |-> <<>>]

\* let state = { goals: {...}, meals: [], favorites: [], history: [], pendingMeal: null }
InitialState ==
    [goals |-> [calories |-> 2000, protein |-> 150, carbs |-> 250, fat |-> 65],
     meals |-> <<>>,
     favorites |-> <<>>,
     history |-> <<>>,
     pendingMeal |-> NoMeal]

\* no page is open: the server specifications leave the client alone
ClientIdle ==
    /\ state = InitialState
    /\ localStorage = <<>>
    /\ today = 1
    /\ now = 1
    /\ opened = 1
    /\ lookupBtn = [disabled |-> FALSE]
    /\ fetches = <<>>

Init ==
    /\ req \in Requests
    /\ apiKey \in ApiKeys
    /\ pc = "start"
    /\ rawQuery = <<>>
    /\ items = <<>>
    /\ idx = 1
    /\ totalNutrients = ZeroTotals
    /\ foundItems = <<>>
    /\ notFoundItems = <<>>
    /\ itemText = <<>>
    /\ attempt = 0
    /\ inflight = <<>>
    /\ timers = <<>>
    /\ sent = <<>>
    /\ trace = <<>>
    /\ console = {}
    /\ ClientIdle
    /\ results = <<>>
    /\ failures = <<>>
    /\ stub = <<>>

\* if (!rawQuery) return res.status(400).json(...)
RejectMissingQueryAfterKey ==
    /\ pc = "start"
    /\ RawQuery(req) = <<>>
    /\ rawQuery' = RawQuery(req)
    /\ sent' = Append(sent, IF apiKey = <<>>
                            THEN [status |-> 500, body |-> [error |-> MsgNoApiKey]]
                            ELSE [status |-> 400, body |-> [error |-> MsgMissingQuery]])
    /\ pc' = "done"
    /\ UNCHANGED <<clientVars, req, apiKey, stub, items, idx, totalNutrients, foundItems, notFoundItems,
                   itemText, attempt, inflight, timers, trace, results, failures, console>>
RejectMissingQuery ==
    /\ pc = "start"
    /\ RawQuery(req) = <<>>
    /\ rawQuery' = RawQuery(req)
    /\ sent' = Append(sent, [status |-> 400, body |-> [error |-> MsgMissingQuery]])
    /\ pc' = "done"
    /\ UNCHANGED <<clientVars, req, apiKey, stub, items, idx, totalNutrients, foundItems, notFoundItems,
                   itemText, attempt, inflight, timers, trace, results, failures, console>>

\* if (!apiKey) return res.status(500).json(...)
RejectNoApiKeyAsMiss ==
    /\ pc = "start"
    /\ RawQuery(req) /= <<>>
    /\ apiKey = <<>>
    /\ rawQuery' = RawQuery(req)
    /\ sent' = Append(sent, [status |-> 200, body |-> FailureBody(RawQuery(req))])
    /\ pc' = "done"
    /\ UNCHANGED <<clientVars, req, apiKey, stub, items, idx, totalNutrients, foundItems, notFoundItems,
                   itemText, attempt, inflight, timers, trace, results, failures, console>>
RejectNoApiKey ==
    /\ pc = "start"
    /\ RawQuery(req) /= <<>>
    /\ apiKey = <<>>
    /\ rawQuery' = RawQuery(req)
    /\ sent' = Append(sent, [status |-> 500, body |-> [error |-> MsgNoApiKey]])
    /\ pc' = "done"
    /\ UNCHANGED <<clientVars, req, apiKey, stub, items, idx, totalNutrients, foundItems, notFoundItems,
                   itemText, attempt, inflight, timers, trace, results, failures, console>>

\* both checks pass: parse the query and set up the totals and the two lists
BeginKeepsTotals ==
    /\ pc = "start"
    /\ RawQuery(req) /= <<>>
    /\ apiKey /= <<>>
    /\ rawQuery' = RawQuery(req)
    /\ items' = parseItems(RawQuery(req))
    /\ foundItems' = <<>>
    /\ notFoundItems' = <<>>
    /\ idx' = 1
    /\ pc' = "loop"
    /\ console' = console \cup {"log"}
    /\ UNCHANGED <<clientVars, req, apiKey, stub, totalNutrients, itemText, attempt, inflight, timers,
                   sent, trace, results, failures>>
Begin ==
    /\ pc = "start"
    /\ RawQuery(req) /= <<>>
    /\ apiKey /= <<>>
    /\ rawQuery' = RawQuery(req)
    /\ items' = parseItems(RawQuery(req))
    /\ totalNutrients' = ZeroTotals
    /\ foundItems' = <<>>
    /\ notFoundItems' = <<>>
    /\ idx' = 1
    /\ pc' = "loop"
    /\ console' = console \cup {"log"}
    /\ UNCHANGED <<clientVars, req, apiKey, stub, itemText, attempt, inflight, timers, sent, trace, results,
                   failures>>

\* for (const item of items) { const result = await searchFood(apiKey, item.text)
CallResolver ==
    /\ pc = "loop"
    /\ idx <= Len(items)
    /\ itemText' = items[idx].text
    /\ attempt' = 0
    /\ trace' = <<>>
    /\ UNCHANGED console
    /\ pc' = "attempt"
    /\ UNCHANGED <<clientVars, req, apiKey, stub, handlerLocals, inflight, timers, sent>>

\* the body of the handler's loop, run with the value searchFood returned
Return(result) ==
    /\ results' = Append(results, result)
    /\ failures' = Append(failures, Failed(trace'))
    /\ IF result.found
       THEN /\ foundItems' = Append(foundItems, FoundEntry(items[idx], result))
            /\ totalNutrients' = AddTo(totalNutrients, result, items[idx].qty)
            /\ UNCHANGED notFoundItems
       ELSE /\ notFoundItems' = PushMissing(notFoundItems, items[idx])
            /\ UNCHANGED <<foundItems, totalNutrients>>
    /\ idx' = idx + 1
    /\ pc' = "loop"
    /\ UNCHANGED <<clientVars, req, apiKey, stub, rawQuery, items, itemText, attempt, sent>>

\* attempt <= retries, the condition of the resolver's loop
LoopContinuesStrict(a) == a < Retries
LoopContinues(a) == a <= Retries

\* the head of the resolver's loop: fetch(url), or the return null after the loop
IssueFetchNoAwait ==
    /\ pc = "attempt"
    /\ inflight' = Append(inflight, UpstreamRequest(apiKey, itemText))
    /\ trace' = Append(trace, "request")
    /\ console' = console \cup Logged("request")
    /\ Return([found |-> TRUE, name |-> <<>>, calories |-> Zero, protein |-> Zero,
               carbs |-> Zero, fat |-> Zero])
    /\ UNCHANGED timers
IssueFetch ==
    /\ pc = "attempt"
    /\ IF LoopContinues(attempt)
       THEN /\ inflight' = Append(inflight, UpstreamRequest(apiKey, itemText))
            /\ trace' = Append(trace, "request")
            /\ console' = console \cup Logged("request")
            /\ pc' = "fetching"
            /\ UNCHANGED <<clientVars, req, apiKey, stub, handlerLocals, itemText, attempt, timers, sent>>
       ELSE /\ trace' = Append(trace, "exhausted")
            /\ console' = console \cup Logged("exhausted")
            /\ Return(Null)
            /\ UNCHANGED <<inflight, timers>>

\* await new Promise(r => setTimeout(r, 300)); continue
BackoffSkipped(ev) ==
    /\ trace' = Append(trace, ev)
    /\ console' = console \cup Logged(ev)
    /\ attempt' = attempt + 1
    /\ pc' = "attempt"
    /\ UNCHANGED <<clientVars, req, apiKey, stub, handlerLocals, itemText, timers, sent>>
BackoffNoTimer(ev) ==
    /\ trace' = trace \o <<ev, "wait">>
    /\ console' = console \cup Logged(ev)
    /\ pc' = "backoff"
    /\ UNCHANGED <<clientVars, req, apiKey, stub, handlerLocals, itemText, attempt, timers, sent>>
Backoff(ev) ==
    /\ trace' = trace \o <<ev, "wait">>
    /\ console' = console \cup Logged(ev)
    /\ timers' = Append(timers, BackoffDelay)
    /\ pc' = "backoff"
    /\ UNCHANGED <<clientVars, req, apiKey, stub, handlerLocals, itemText, attempt, sent>>

\* return null / return {...} from inside the loop
ReturnFrom(ev, result) ==
    /\ trace' = Append(trace, ev)
    /\ console' = console \cup Logged(ev)
    /\ Return(result)
    /\ UNCHANGED timers

\* if (!response.ok) { ... }
OnNotOkSurfaced ==
    IF AttemptsRemain(attempt) THEN Backoff("status")
    ELSE /\ trace' = Append(trace, "status")
         /\ console' = console \cup Logged("status")
         /\ sent' = Append(sent, [status |-> 500, body |-> [error |-> <<"U", "S", "D", "A">>]])
         /\ pc' = "done"
         /\ UNCHANGED <<clientVars, req, apiKey, stub, handlerLocals, itemText, attempt, timers>>
OnNotOk == IF AttemptsRemain(attempt) THEN Backoff("status") ELSE ReturnFrom("status", Null)

\* catch (error) { ... }
OnThrowUncaught ==
    /\ trace' = Append(trace, "error")
    /\ console' = console \cup Logged("error")
    /\ sent' = Append(sent, [status |-> 500, body |-> [error |-> <<"f", "e", "t", "c", "h">>]])
    /\ pc' = "done"
    /\ UNCHANGED <<clientVars, req, apiKey, stub, handlerLocals, itemText, attempt, timers>>
OnThrow == IF AttemptsRemain(attempt) THEN Backoff("error") ELSE ReturnFrom("error", Null)

\* foods.length is 0: console.log(`No results ...`); return null
OnNoResultsRetried == IF AttemptsRemain(attempt) THEN Backoff("miss") ELSE ReturnFrom("miss", Null)
OnNoResults == ReturnFrom("miss", Null)

\* the upstream call rejects, or response.json() rejects
FetchThrows ==
    /\ pc = "fetching"
    /\ inflight /= <<>>
    /\ \E r \in Responses : IsThrow(r)
    /\ inflight' = Tail(inflight)
    /\ OnThrow

\* the upstream call answers with a non-success status
FetchNotOk ==
    /\ pc = "fetching"
    /\ inflight /= <<>>
    /\ \E r \in Responses : IsNotOk(r)
    /\ inflight' = Tail(inflight)
    /\ OnNotOk

\* the upstream call answers with at least one candidate food
FetchFound ==
    /\ pc = "fetching"
    /\ inflight /= <<>>
    /\ \E r \in Responses :
          /\ IsParsed(r)
          /\ Len(Foods(r.data)) > 0
          /\ inflight' = Tail(inflight)
          /\ ReturnFrom("hit", NutrientResult(Foods(r.data)[1]))

\* the upstream call answers with no candidate food
FetchNoResults ==
    /\ pc = "fetching"
    /\ inflight /= <<>>
    /\ \E r \in Responses : IsParsed(r) /\ Len(Foods(r.data)) = 0
    /\ inflight' = Tail(inflight)
    /\ OnNoResults

\* the 300 ms timer fires: continue with the next attempt
BackoffElapsed ==
    /\ pc = "backoff"
    /\ timers /= <<>>
    /\ timers' = Tail(timers)
    /\ attempt' = attempt + 1
    /\ pc' = "attempt"
    /\ UNCHANGED <<clientVars, req, apiKey, stub, handlerLocals, itemText, inflight, sent, trace, console>>

\* after the loop: the total-failure response or the outcome
Respond ==
    /\ pc = "loop"
    /\ idx > Len(items)
    /\ sent' = Append(sent,
                      [status |-> 200,
                       body |-> IF NoneFound(foundItems)
                                THEN FailureBody(rawQuery)
                                ELSE SuccessBody(totalNutrients, foundItems, notFoundItems)])
    /\ pc' = "done"
    /\ UNCHANGED <<clientVars, req, apiKey, stub, handlerLocals, itemText, attempt, inflight, timers, trace, console>>

Next ==
    \/ RejectMissingQuery
    \/ RejectNoApiKey
    \/ Begin
    \/ CallResolver
    \/ IssueFetch
    \/ FetchThrows
    \/ FetchNotOk
    \/ FetchFound
    \/ FetchNoResults
    \/ BackoffElapsed
    \/ Respond

Spec == Init /\ [][Next]_vars

(***************************************************************************)
(* Properties of one request                                               *)
(***************************************************************************)
NutrientFields == {"calories", "protein", "carbs", "fat"}

\* the request passed the query check and the API-key check
Passed == RawQuery(req) /= <<>> /\ apiKey /= <<>>

\* the handler has answered a request that passed both checks
Answered == pc = "done" /\ Passed

\* the items whose resolution returned a NutrientResult, and those it did not
ResolvedItems == {i \in DOMAIN results : results[i].found}
MissedItems == {i \in DOMAIN results : ~results[i].found}

\* the exact quantity-weighted sum of field f over the resolved items among the
\* first k, as a fraction SumNum / SumDen
RECURSIVE SumDen(_, _)
SumDen(f, k) ==
    IF k = 0 THEN 1
    ELSE SumDen(f, k - 1) * (IF results[k].found THEN items[k].qty.d * results[k][f].d ELSE 1)

RECURSIVE SumNum(_, _)
SumNum(f, k) ==
    IF k = 0 THEN 0
    ELSE IF results[k].found
         THEN SumNum(f, k - 1) * items[k].qty.d * results[k][f].d
              + items[k].qty.n * results[k][f].n * SumDen(f, k - 1)
         ELSE SumNum(f, k - 1)

\* m is the integer nearest to num / den (a tie goes to the larger one)
IsNearest(m, num, den) == 2 * m * den - den <= 2 * num /\ 2 * num < 2 * m * den + den

\* the sum of field f when each item's contribution is rounded by itself
RECURSIVE SumOfRounded(_, _)
SumOfRounded(f, k) ==
    IF k = 0 THEN 0
    ELSE SumOfRounded(f, k - 1)
         + (IF results[k].found THEN MathRound(RMul(items[k].qty, results[k][f])) ELSE 0)

\* the texts of the items among the first k that did not resolve, in phrase order
RECURSIVE MissedTexts(_)
MissedTexts(k) ==
    IF k = 0 THEN <<>>
    ELSE IF results[k].found THEN MissedTexts(k - 1)
         ELSE Append(MissedTexts(k - 1), items[k].text)

\* C1: when at least one item resolved, each of calories, protein, carbs and fat
\* of the outcome is the exact sum of quantity times per-unit value over the
\* resolved items, rounded to the nearest integer once, after summing.
C1_TotalsAreRoundedSum ==
    (Answered /\ ResolvedItems /= {}) =>
        /\ Len(sent) = 1
        /\ Len(results) = Len(items)
        /\ \A f \in NutrientFields :
              /\ f \in DOMAIN sent[1].body
              /\ IsNearest(sent[1].body[f], SumNum(f, Len(results)), SumDen(f, Len(results)))

\* two items resolved, one did not, and rounding each contribution by itself
\* would have given another protein total
C1_Witness ==
    /\ Answered
    /\ Cardinality(ResolvedItems) >= 2
    /\ MissedItems /= {}
    /\ Len(sent) = 1
    /\ sent[1].body.found
    /\ sent[1].body.protein /= SumOfRounded("protein", Len(results))

\* C2: in an outcome with found = true, missing holds exactly the texts of the
\* items that did not resolve, one entry each, in phrase order.
C2_MissingListsUnresolved ==
    (pc = "done" /\ Len(sent) = 1 /\ sent[1].status = 200 /\ sent[1].body.found) =>
        /\ Len(results) = Len(items)
        /\ sent[1].body.missing = MissedTexts(Len(results))
        /\ Len(sent[1].body.missing) = Cardinality(MissedItems)

\* the first item resolved and the two after it did not
C2_Witness ==
    /\ pc = "done"
    /\ Len(sent) = 1
    /\ sent[1].status = 200
    /\ sent[1].body.found
    /\ Len(results) = 3
    /\ ResolvedItems = {1}
    /\ sent[1].body.missing = <<items[2].text, items[3].text>>
    /\ items[2].text /= items[3].text

\* C3: a request that passes both checks is answered with found = true if and
\* only if at least one item resolved, and with found = false otherwise.
C3_FoundIffSomeResolved ==
    Answered =>
        /\ Len(sent) = 1
        /\ sent[1].status = 200
        /\ Len(results) = Len(items)
        /\ sent[1].body.found \in BOOLEAN
        /\ sent[1].body.found = (ResolvedItems /= {})

\* exactly one item of several resolved, and the answer says found = true
C3_Witness ==
    /\ Answered
    /\ Len(results) >= 2
    /\ Cardinality(ResolvedItems) = 1
    /\ Len(sent) = 1
    /\ sent[1].body.found

\* C4: in an outcome with found = true, partial is true exactly when missing is
\* not empty; when one of two items misses, partial is true, missing is that
\* item's text and the totals are those of the resolved item alone.
C4_PartialIffMissing ==
    (pc = "done" /\ Len(sent) = 1 /\ sent[1].status = 200 /\ sent[1].body.found) =>
        /\ sent[1].body.partial = (sent[1].body.missing /= <<>>)
        /\ sent[1].body.partial = (MissedItems /= {})
        /\ (Len(items) = 2 /\ Cardinality(MissedItems) = 1) =>
              LET m == CHOOSE i \in MissedItems : TRUE
                  r == CHOOSE i \in ResolvedItems : TRUE
              IN  /\ sent[1].body.partial
                  /\ sent[1].body.missing = <<items[m].text>>
                  /\ \A f \in NutrientFields :
                        IsNearest(sent[1].body[f],
                                  items[r].qty.n * results[r][f].n,
                                  items[r].qty.d * results[r][f].d)

\* the second of two items resolved, the first did not
C4_Witness ==
    /\ pc = "done"
    /\ Len(sent) = 1
    /\ sent[1].status = 200
    /\ sent[1].body.found
    /\ Len(items) = 2
    /\ MissedItems = {1}
    /\ sent[1].body.partial
    /\ sent[1].body.calories > 0

\* the raw phrase q stands in message msg at position at
NamesPhrase(msg, q, at) ==
    /\ at + Len(q) - 1 <= Len(msg)
    /\ SubSeq(msg, at, at + Len(q) - 1) = q

\* C5: when every item ends as not-found the response is {found: false, error}
\* with a message naming the raw phrase, and it has no other field.
C5_TotalFailureBody ==
    (Answered /\ ResolvedItems = {}) =>
        /\ Len(sent) = 1
        /\ sent[1].status = 200
        /\ DOMAIN sent[1].body = {"found", "error"}
        /\ sent[1].body.found = FALSE
        /\ Len(sent[1].body.error) = Len(RawQuery(req)) + 17
        /\ NamesPhrase(sent[1].body.error, RawQuery(req), 17)

\* a phrase of several items, none of which resolved
C5_Witness ==
    /\ Answered
    /\ Len(items) >= 2
    /\ Len(results) = Len(items)
    /\ ResolvedItems = {}
    /\ Len(sent) = 1

(***************************************************************************)
(* Properties of the resolver inside a request                             *)
(***************************************************************************)
\* the events of one kind in a trace, and in its first k events
Count(t, ev) == Cardinality({k \in DOMAIN t : t[k] = ev})
CountUpTo(t, ev, n) == Cardinality({k \in DOMAIN t : k <= n /\ t[k] = ev})

TransientEvents == {"error", "status"}

\* the running searchFood call has returned to the handler's loop
Returned == pc \in {"loop", "done"} /\ trace /= <<>>

\* the text t is an entry of the list
Holds(list, t) == \E k \in DOMAIN list : list[k] = t

\* C6: a failure while resolving an item never aborts the request: no error
\* response is sent for it, every later item is still resolved, and an item whose
\* attempts all failed is reported in missing only.
C6_ItemFailureDoesNotAbort ==
    /\ \A k \in DOMAIN sent : sent[k].status = 500 => apiKey = <<>>
    /\ (trace /= <<>> /\ pc /= "done") => sent = <<>>
    /\ Answered =>
          /\ Len(sent) = 1
          /\ sent[1].status = 200
          /\ Len(results) = Len(items)
          /\ \A i \in DOMAIN failures :
                failures[i] = Retries + 1 =>
                   /\ ~results[i].found
                   /\ sent[1].body.found =>
                         /\ Holds(sent[1].body.missing, items[i].text)
                         /\ Len(sent[1].body.missing) < Len(items)

\* every attempt for the first item failed, the second item resolved after a
\* failed attempt, and the outcome reports the first item as missing
C6_Witness ==
    /\ Answered
    /\ Len(items) = 3
    /\ Len(failures) = 3
    /\ failures[1] = Retries + 1
    /\ failures[2] = 1
    /\ results[2].found
    /\ Len(sent) = 1
    /\ sent[1].status = 200
    /\ sent[1].body.found
    /\ sent[1].body.missing[1] = items[1].text

\* C7: within a request at most one upstream call is in flight, it is the call
\* for the item the loop is at, all earlier items have returned, and no call is
\* in flight during a backoff wait.
C7_Sequential ==
    /\ Len(inflight) <= 1
    /\ Len(inflight) + Len(timers) <= 1
    /\ inflight /= <<>> =>
          /\ pc = "fetching"
          /\ idx \in DOMAIN items
          /\ inflight[1].query = items[idx].text
    /\ timers /= <<>> => pc = "backoff"
    /\ pc \in {"attempt", "fetching", "backoff"} =>
          /\ idx \in DOMAIN items
          /\ Len(results) = idx - 1
          /\ itemText = items[idx].text

\* the call for the second item is in flight on a retry, after the first item
\* needed retries of its own
C7_Witness ==
    /\ Len(inflight) = 1
    /\ idx = 2
    /\ attempt = 1
    /\ Len(failures) = 1
    /\ failures[1] >= 1
    /\ inflight[1].query = items[2].text

\* C8: one resolver call issues at most retries + 1 = 3 upstream requests, exactly
\* that many when every attempt fails, and returns a NutrientResult or null to
\* the handler's loop.
C8_BoundedAttempts ==
    /\ Retries + 1 = 3
    /\ Count(trace, "request") <= 3
    /\ (Returned /\ Count(trace, "hit") = 0 /\ Count(trace, "miss") = 0) =>
          /\ Count(trace, "request") = Retries + 1
          /\ Failed(trace) = Retries + 1
          /\ results[Len(results)] = Null
    /\ Returned => Len(results) = idx - 1
    /\ \A i \in DOMAIN results :
          \/ results[i] = Null
          \/ /\ results[i].found
             /\ DOMAIN results[i] = {"found", "name", "calories", "protein", "carbs", "fat"}

\* a call has returned after three requests that all failed
C8_Witness ==
    /\ Returned
    /\ Count(trace, "request") = 3
    /\ Failed(trace) = 3
    /\ results[Len(results)] = Null

\* C9: a success response without candidate foods ends the resolver call at
\* once with not-found: no wait and no further request follows it.
C9_ContentMissNotRetried ==
    \A k \in DOMAIN trace :
        trace[k] = "miss" =>
           /\ k = Len(trace)
           /\ Returned
           /\ results[Len(results)] = Null
           /\ timers = <<>>
           /\ inflight = <<>>

\* the first attempt for an item got an empty answer, with two attempts left
C9_Witness ==
    /\ trace = <<"request", "miss">>
    /\ Returned
    /\ AttemptsRemain(attempt)
    /\ results[Len(results)] = Null

\* C10: a failed attempt with attempts left is followed by one 300 ms wait and
\* then the next request; a failed last attempt ends the call with not-found
\* and no wait; every retry comes right after exactly one wait.
C10_BackoffBeforeRetry ==
    /\ Len(timers) <= 1
    /\ \A k \in DOMAIN timers : timers[k] = 300
    /\ pc = "attempt" => attempt <= Retries /\ attempt = Count(trace, "request")
    /\ \A k \in DOMAIN trace :
          /\ trace[k] \in TransientEvents =>
                IF CountUpTo(trace, "request", k) <= Retries
                THEN /\ k + 1 <= Len(trace)
                     /\ trace[k + 1] = "wait"
                     /\ k + 2 <= Len(trace) => trace[k + 2] = "request"
                     /\ k + 1 = Len(trace) =>
                           \/ pc = "backoff" /\ Len(timers) = 1
                           \/ pc = "attempt" /\ timers = <<>>
                ELSE /\ k = Len(trace)
                     /\ Returned
                     /\ results[Len(results)] = Null
                     /\ timers = <<>>
                     /\ inflight = <<>>
          /\ (trace[k] = "request" /\ k > 1) =>
                /\ k > 3
                /\ trace[k - 1] = "wait"
                /\ trace[k - 2] \in TransientEvents
          /\ trace[k] = "wait" => (k > 1 /\ trace[k - 1] \in TransientEvents)

\* three failed attempts with a wait after the first and the second only
C10_Witness ==
    /\ Returned
    /\ trace = <<"request", "error", "wait", "request", "status", "wait", "request", "error">>
    /\ timers = <<>>

(***************************************************************************)
(* Properties of the two rejections                                        *)
(***************************************************************************)
\* C13: a request without a query, or with an empty one, is answered with
\* status 400 and an error message whether or not an API key is configured, and
\* no upstream call is made for it.
C13_MissingQueryRejected ==
    RawQuery(req) = <<>> =>
        /\ inflight = <<>>
        /\ trace = <<>>
        /\ results = <<>>
        /\ timers = <<>>
        /\ pc \in {"start", "done"}
        /\ pc = "done" =>
              /\ Len(sent) = 1
              /\ sent[1].status = 400
              /\ DOMAIN sent[1].body = {"error"}
              /\ sent[1].body.error /= <<>>

\* a request without a query was answered while no API key is configured
C13_Witness ==
    /\ "query" \notin DOMAIN req.query
    /\ "query" \notin DOMAIN req.body
    /\ apiKey = <<>>
    /\ pc = "done"
    /\ Len(sent) = 1
    /\ sent[1].status = 400

\* C14: a request with a query, while no API key is configured, is answered
\* with status 500 and an error message, without a found field, and no upstream
\* call is made for it.
C14_MissingKeyIsServerError ==
    (RawQuery(req) /= <<>> /\ apiKey = <<>>) =>
        /\ inflight = <<>>
        /\ trace = <<>>
        /\ results = <<>>
        /\ timers = <<>>
        /\ pc \in {"start", "done"}
        /\ pc = "done" =>
              /\ Len(sent) = 1
              /\ sent[1].status = 500
              /\ sent[1].status /= 200
              /\ "found" \notin DOMAIN sent[1].body
              /\ "error" \in DOMAIN sent[1].body
              /\ sent[1].body.error /= <<>>

\* a request with a phrase of several items was answered while no key is configured
C14_Witness ==
    /\ Len(parseItems(RawQuery(req))) >= 2
    /\ apiKey = <<>>
    /\ pc = "done"
    /\ Len(sent) = 1
    /\ sent[1].status = 500

(***************************************************************************)
(* The same request handled twice against a stubbed upstream: the stub     *)
(* fixes, for each run and each item, the answers its attempts get         *)
(***************************************************************************)
TransientAnswers == {r \in Responses : IsThrow(r) \/ IsNotOk(r)}
FinalAnswers == Responses \ TransientAnswers
EmptyAnswers == {r \in FinalAnswers : Len(Foods(r.data)) = 0}

\* the sequences of length n over the set S
SeqsOfLen(S, n) == [1..n -> S]

\* the answer sequences one searchFood call can consume: failures followed by
\* a final answer, or a failure on every attempt
Scripts ==
    UNION { {fails \o <<r>> : fails \in SeqsOfLen(TransientAnswers, k), r \in FinalAnswers}
            : k \in 0..Retries }
    \cup SeqsOfLen(TransientAnswers, Retries + 1)

\* the answer sequences of the items that are the same in both runs
OtherScripts ==
    { <<[kind |-> "http", ok |-> TRUE, json |-> TRUE, data |-> [foods |-> <<Egg, Tea>>]]>>,
      <<[kind |-> "http", ok |-> TRUE, json |-> TRUE, data |-> [foods |-> <<>>]]>>,
      <<[kind |-> "throw"], [kind |-> "http", ok |-> FALSE], [kind |-> "throw"]>>,
      <<[kind |-> "http", ok |-> FALSE],
        [kind |-> "http", ok |-> TRUE, json |-> TRUE, data |-> [foods |-> <<Tea>>]]>> }

AllTransient(sc) == \A j \in DOMAIN sc : sc[j] \in TransientAnswers

\* the second run's answers for the item that differs
Variants(sc) ==
    {sc}
    \cup (IF sc[Len(sc)] \in FinalAnswers THEN {<<sc[Len(sc)]>>} ELSE {})
    \cup (IF AllTransient(sc) THEN {<<r>> : r \in EmptyAnswers} ELSE {})

\* the stubs for a phrase of n items: the two runs differ in at most one item
StubsFor(n) ==
    IF n = 0 THEN {<<<<>>, <<>>>>}
    ELSE UNION { UNION { { << [i \in 1..n |-> IF i = k THEN sc ELSE others[i]],
                            [i \in 1..n |-> IF i = k THEN alt ELSE others[i]] >>
                           : alt \in Variants(sc) }
                         : sc \in Scripts }
                 : k \in 1..n, others \in [1..n -> OtherScripts] }

RunPhrases ==
    { <<"t", "e", "a">>,
      <<"2", " ", "e", "g", "g", " ", "a", "n", "d", " ", "a", " ", "t", "e", "a">> }

InitRuns ==
    /\ req \in {[query |-> [query |-> p], body |-> NoParams] : p \in RunPhrases}
    /\ apiKey = <<"k", "e", "y">>
    /\ stub \in StubsFor(Len(parseItems(RawQuery(req))))
    /\ pc = "start"
    /\ rawQuery = <<>>
    /\ items = <<>>
    /\ idx = 1
    /\ totalNutrients = ZeroTotals
    /\ foundItems = <<>>
    /\ notFoundItems = <<>>
    /\ itemText = <<>>
    /\ attempt = 0
    /\ inflight = <<>>
    /\ timers = <<>>
    /\ sent = <<>>
    /\ trace = <<>>
    /\ console = {}
    /\ ClientIdle
    /\ results = <<>>
    /\ failures = <<>>

\* the run the handler is in, and the answer the stub gives to the call in flight
Run == Len(sent) + 1
HasStubAnswer ==
    /\ Run \in DOMAIN stub
    /\ idx \in DOMAIN stub[Run]
    /\ attempt + 1 \in DOMAIN stub[Run][idx]
StubAnswer == stub[Run][idx][attempt + 1]

StubThrows == HasStubAnswer /\ IsThrow(StubAnswer) /\ FetchThrows
StubNotOk == HasStubAnswer /\ IsNotOk(StubAnswer) /\ FetchNotOk
StubNoResults ==
    /\ HasStubAnswer
    /\ IsParsed(StubAnswer)
    /\ Len(Foods(StubAnswer.data)) = 0
    /\ FetchNoResults
StubFound ==
    /\ HasStubAnswer
    /\ IsParsed(StubAnswer)
    /\ Len(Foods(StubAnswer.data)) > 0
    /\ FetchFound
    /\ results' = Append(results, NutrientResult(Foods(StubAnswer.data)[1]))

\* the function is invoked again with the same request
NextRequest ==
    /\ pc = "done"
    /\ Run \in DOMAIN stub
    /\ pc' = "start"
    /\ UNCHANGED <<clientVars, req, apiKey, stub, handlerLocals, itemText, attempt, inflight, timers,
                   sent, trace, console>>

NextRuns ==
    \/ Begin
    \/ CallResolver
    \/ IssueFetch
    \/ StubThrows
    \/ StubNotOk
    \/ StubFound
    \/ StubNoResults
    \/ BackoffElapsed
    \/ Respond
    \/ NextRequest

SpecRuns == InitRuns /\ [][NextRuns]_vars

\* both runs have been answered
BothAnswered == pc = "done" /\ Len(sent) = 2 /\ Len(results) = 2 * Len(items)

\* the two runs returned the same resolver results and the same response
SameOutcome ==
    /\ sent[1] = sent[2]
    /\ Len(results) = 2 * Len(items)
    /\ \A i \in DOMAIN items : results[i] = results[Len(items) + i]

\* item i failed one or more times before its final answer in the first run and
\* got that final answer on the first attempt in the second run
RetriedInFirstRun(i) ==
    /\ Len(stub[1][i]) > 1
    /\ stub[1][i][Len(stub[1][i])] \in FinalAnswers
    /\ stub[2][i] = <<stub[1][i][Len(stub[1][i])]>>

\* item i failed on every attempt in the first run and got an empty answer on
\* the first attempt in the second run
ExhaustedInFirstRun(i) ==
    /\ Len(stub[1][i]) = Retries + 1
    /\ AllTransient(stub[1][i])
    /\ Len(stub[2][i]) = 1
    /\ stub[2][i][1] \in EmptyAnswers

\* C11: a run in which an item's attempts fail before a later attempt gets the
\* answer R returns the same resolver results and the same response as a run in
\* which the first attempt gets R.
C11_RetryTransparent ==
    (pc = "done" /\ Len(sent) = 2 /\ \E i \in DOMAIN items : RetriedInFirstRun(i)) =>
        SameOutcome

\* the first item resolved on its third attempt in the first run
C11_Witness ==
    /\ BothAnswered
    /\ Len(items) = 2
    /\ RetriedInFirstRun(1)
    /\ Len(stub[1][1]) = Retries + 1
    /\ results[1].found
    /\ failures[1] = 2
    /\ failures[Len(items) + 1] = 0
    /\ sent[1].body.found

\* C12: an item whose attempts all fail gives the same resolver result and the
\* same response as the same item answered with no candidate foods.
C12_ExhaustionLooksLikeMiss ==
    (pc = "done" /\ Len(sent) = 2 /\ \E i \in DOMAIN items : ExhaustedInFirstRun(i)) =>
        /\ SameOutcome
        /\ \A i \in DOMAIN items : ExhaustedInFirstRun(i) => results[i] = Null

\* the second item failed three times in the first run, the first item resolved
C12_Witness ==
    /\ BothAnswered
    /\ Len(items) = 2
    /\ ExhaustedInFirstRun(2)
    /\ failures[2] = Retries + 1
    /\ failures[Len(items) + 2] = 0
    /\ results[1].found
    /\ sent[2].body.missing = <<items[2].text>>

(***************************************************************************)
(* parseItems on its own: the handler's call items = parseItems(rawQuery)  *)
(* for raw strings put together from a few tokens                          *)
(***************************************************************************)
\* the largest number of tokens a raw string is put together from
MaxTokens == 4

Tokens ==
    { <<",">>, <<" ">>, <<"\n">>, <<" ", "A", "n", "d", " ">>,
      <<"a">>, <<"N">>, <<"a", "n", "d">>,
      <<"2">>, <<"0">>, <<".", "5">> }

RECURSIVE TokenStrings(_)
TokenStrings(n) ==
    IF n = 0 THEN {<<>>}
    ELSE LET shorter == TokenStrings(n - 1)
         IN  shorter \cup {p \o t : p \in shorter, t \in Tokens}

ExampleEggsBanana ==
    <<"2", " ", "e", "g", "g", "s", " ", "a", "n", "d", " ", "a", " ",
      "b", "a", "n", "a", "n", "a">>
ExampleChicken ==
    <<"c", "h", "i", "c", "k", "e", "n", " ", "b", "r", "e", "a", "s", "t", " ",
      "w", "i", "t", "h", " ", "r", "i", "c", "e">>
ExampleReadme ==
    <<"2", " ", "s", "c", "r", "a", "m", "b", "l", "e", "d", " ", "e", "g", "g", "s", ",", " ",
      "a", " ", "b", "a", "n", "a", "n", "a", ",", " ", "a", "n", "d", " ",
      "c", "o", "f", "f", "e", "e">>
ExampleTwoLines ==
    <<"2", " ", "e", "g", "g", "s", "\n", "b", "a", "c", "o", "n">>

ParseInputs ==
    TokenStrings(MaxTokens)
    \cup {ExampleEggsBanana, ExampleChicken, ExampleReadme, ExampleTwoLines}

InitParse ==
    /\ rawQuery \in ParseInputs
    /\ req = [query |-> [query |-> rawQuery], body |-> NoParams]
    /\ apiKey = <<"k", "e", "y">>
    /\ stub = <<>>
    /\ pc = "raw"
    /\ items = <<>>
    /\ idx = 1
    /\ totalNutrients = ZeroTotals
    /\ foundItems = <<>>
    /\ notFoundItems = <<>>
    /\ itemText = <<>>
    /\ attempt = 0
    /\ inflight = <<>>
    /\ timers = <<>>
    /\ sent = <<>>
    /\ trace = <<>>
    /\ console = {}
    /\ ClientIdle
    /\ results = <<>>
    /\ failures = <<>>

\* const items = parseItems(rawQuery)
Parse ==
    /\ pc = "raw"
    /\ items' = parseItems(rawQuery)
    /\ pc' = "parsed"
    /\ UNCHANGED <<clientVars, req, apiKey, stub, rawQuery, idx, totalNutrients, foundItems,
                   notFoundItems, itemText, attempt, inflight, timers, sent, trace,
                   results, failures, console>>

NextParse == Parse

SpecParse == InitParse /\ [][NextParse]_vars

(***************************************************************************)
(* Properties of parseItems                                                *)
(***************************************************************************)
Parsed == pc = "parsed"

\* the separator /,| and /i matches at position j of s
IsSeparatorAt(s, j) ==
    \/ s[j] = ","
    \/ /\ j + 4 <= Len(s)
       /\ s[j] = " "
       /\ s[j + 1] \in {"a", "A"}
       /\ s[j + 2] \in {"n", "N"}
       /\ s[j + 3] \in {"d", "D"}
       /\ s[j + 4] = " "

\* reading s from position i on, everything is a separator or white space
RECURSIVE OnlySeparatorsFrom(_, _)
OnlySeparatorsFrom(s, i) ==
    IF i > Len(s) THEN TRUE
    ELSE IF s[i] = "," THEN OnlySeparatorsFrom(s, i + 1)
    ELSE IF IsSeparatorAt(s, i) THEN OnlySeparatorsFrom(s, i + 5)
    ELSE IF IsSpace(s[i]) THEN OnlySeparatorsFrom(s, i + 1)
    ELSE FALSE

OnlySeparators(s) == OnlySeparatorsFrom(s, 1)

\* a character that is part of no separator and is not white space
IsContent(c) == ~IsSpace(c) /\ c \notin {",", "a", "A", "n", "N", "d", "D"}

\* C15 as the contract states it: every non-empty input gives a non-empty
\* sequence of item descriptors
C15_NonEmptyInputGivesItems ==
    (Parsed /\ rawQuery /= <<>>) => items /= <<>>

\* C15, amended: the sequence of item descriptors is empty exactly when the
\* input, read from the left, consists of nothing but commas, " and "
\* separators (any letter case) and white space; in particular an input with
\* a character that can be part of neither gives at least one descriptor
C15_ItemsUnlessOnlySeparators ==
    Parsed =>
        /\ (items = <<>>) <=> OnlySeparators(rawQuery)
        /\ (\E i \in DOMAIN rawQuery : IsContent(rawQuery[i])) => items /= <<>>

C15_Witness ==
    /\ Parsed
    /\ rawQuery = ExampleReadme
    /\ Len(items) = 3

\* the fragments the descriptors are made from, in order
Fragments == Parts(rawQuery)

IsDigits(s) == s /= <<>> /\ \A i \in DOMAIN s : IsDigit(s[i])

\* a decimal number: digits, optionally followed by a point and digits
IsDecimal(tok) ==
    \/ IsDigits(tok)
    \/ \E j \in DOMAIN tok :
           /\ tok[j] = "."
           /\ IsDigits(Slice(tok, 1, j - 1))
           /\ IsDigits(Slice(tok, j + 1, Len(tok)))

IsArticle(tok) ==
    \/ Len(tok) = 1 /\ tok[1] \in {"a", "A"}
    \/ Len(tok) = 2 /\ tok[1] \in {"a", "A"} /\ tok[2] \in {"n", "N"}

\* the lengths k such that the first k characters of the fragment are a
\* quantity token followed by white space and remaining text
QuantityTokenLengths(frag) ==
    {k \in 1..(Len(frag) - 1) :
        /\ IsDecimal(SubSeq(frag, 1, k)) \/ IsArticle(SubSeq(frag, 1, k))
        /\ IsSpace(frag[k + 1])
        /\ \E j \in (k + 1)..Len(frag) : ~IsSpace(frag[j])}

\* the descriptor the contract gives a fragment
Described(frag) ==
    IF QuantityTokenLengths(frag) = {}
    THEN [qty |-> One, text |-> frag]
    ELSE LET k == CHOOSE n \in QuantityTokenLengths(frag) : TRUE
             tok == SubSeq(frag, 1, k)
         IN  [qty  |-> IF IsArticle(tok) THEN One ELSE ParseFloat(tok),
              text |-> TrimLeft(SubSeq(frag, k + 1, Len(frag)))]

HasLineTerminator(s) == \E i \in DOMAIN s : IsLineTerminator(s[i])

\* C16 as the contract states it: a fragment that starts with a decimal
\* number or an article followed by white space and remaining text gives that
\* number (1 for an article) and the remaining text, any other fragment gives
\* quantity 1 and the whole fragment; "2 eggs and a banana" gives {2, "eggs"},
\* {1, "banana"} and "chicken breast with rice" gives one item
C16_QuantityAndRemainingText ==
    Parsed =>
        LET frags == Fragments IN
        /\ Len(items) = Len(frags)
        /\ \A k \in DOMAIN items : items[k] = Described(frags[k])
        /\ rawQuery = ExampleEggsBanana =>
               items = <<[qty |-> Rat(2, 1), text |-> <<"e", "g", "g", "s">>],
                         [qty |-> One, text |-> <<"b", "a", "n", "a", "n", "a">>]>>
        /\ rawQuery = ExampleChicken =>
               items = <<[qty |-> One, text |-> ExampleChicken]>>

\* what remains of C16 in the code: the descriptor is the described one for
\* every fragment with no line terminator in it, the two examples included
C16_HoldsWithinOneLine ==
    Parsed =>
        LET frags == Fragments IN
        /\ Len(items) = Len(frags)
        /\ \A k \in DOMAIN items :
               ~HasLineTerminator(frags[k]) => items[k] = Described(frags[k])
        /\ rawQuery = ExampleEggsBanana =>
               items = <<[qty |-> Rat(2, 1), text |-> <<"e", "g", "g", "s">>],
                         [qty |-> One, text |-> <<"b", "a", "n", "a", "n", "a">>]>>
        /\ rawQuery = ExampleChicken =>
               items = <<[qty |-> One, text |-> ExampleChicken]>>

\* the fragment that shows the difference: text is cut at the line terminator
C16_CutAtLineTerminator ==
    /\ Parsed
    /\ rawQuery = ExampleTwoLines
    /\ items = <<[qty |-> Rat(2, 1), text |-> <<"e", "g", "g", "s">>]>>

\* the text of a fragment before its first white-space character
RECURSIVE FirstWord(_)
FirstWord(frag) ==
    IF frag = <<>> \/ IsSpace(frag[1]) THEN <<>> ELSE <<frag[1]>> \o FirstWord(Tail(frag))

\* C17 as the contract states it: every descriptor's quantity is strictly
\* greater than zero
C17_QuantityPositive ==
    Parsed => \A k \in DOMAIN items : items[k].qty.n > 0

\* C17, amended: every descriptor's quantity is a non-negative number, and it
\* is zero only for a fragment whose leading number is written with zeros
\* alone ("0", "00", "0.0"); every other fragment gets a positive quantity
C17_QuantityZeroOnlyWhenWritten ==
    Parsed =>
        LET frags == Fragments
        IN  \A k \in DOMAIN items :
                LET word == FirstWord(frags[k])
                IN  /\ items[k].qty.n >= 0
                    /\ items[k].qty.d > 0
                    /\ (items[k].qty.n = 0) <=>
                           /\ Len(word) < Len(frags[k])
                           /\ IsDecimal(word)
                           /\ \A i \in DOMAIN word : word[i] \in {"0", "."}

C17_Witness ==
    /\ Parsed
    /\ rawQuery = <<"0", " ", "N">>
    /\ items = <<[qty |-> Zero, text |-> <<"N">>]>>

\* C18: every descriptor's text is non-empty, for every input; adjacent and
\* trailing separators give no descriptor, so the README's "2 scrambled eggs,
\* a banana, and coffee" gives exactly the texts "scrambled eggs", "banana",
\* "coffee", and no search is issued with an empty query
C18_TextNonEmpty ==
    Parsed =>
        /\ \A k \in DOMAIN items : items[k].text /= <<>> /\ ~IsSpace(items[k].text[1])
        /\ rawQuery = ExampleReadme =>
               [k \in DOMAIN items |-> items[k].text]
                   = << <<"s", "c", "r", "a", "m", "b", "l", "e", "d", " ", "e", "g", "g", "s">>,
                        <<"b", "a", "n", "a", "n", "a">>,
                        <<"c", "o", "f", "f", "e", "e">> >>

\* a fragment that is a quantity token and white space before a separator
C18_Witness ==
    /\ Parsed
    /\ \E i \in DOMAIN rawQuery :
           /\ i > 2
           /\ rawQuery[i] = ","
           /\ rawQuery[i - 1] = " "
           /\ rawQuery[i - 2] = "2"
    /\ rawQuery[Len(rawQuery)] = ","
    /\ items /= <<>>

\* pieces are what lies between the separators of s from position i on: each
\* piece is the text up to the next separator, no separator starts inside a
\* piece, and the last piece ends the input
RECURSIVE SplitsAt(_, _, _)
SplitsAt(s, i, pieces) ==
    /\ pieces /= <<>>
    /\ LET e == i + Len(pieces[1])
       IN  /\ e <= Len(s) + 1
           /\ Slice(s, i, e - 1) = pieces[1]
           /\ \A j \in i..(e - 1) : ~IsSeparatorAt(s, j)
           /\ IF Len(pieces) = 1 THEN e = Len(s) + 1
              ELSE /\ e <= Len(s)
                   /\ IsSeparatorAt(s, e)
                   /\ SplitsAt(s, e + (IF s[e] = "," THEN 1 ELSE 5), Tail(pieces))

\* the piece holds a character that is not white space
NonBlank(piece) == \E i \in DOMAIN piece : ~IsSpace(piece[i])

\* t is piece without its leading and trailing white space
IsTrimOf(t, piece) ==
    /\ t /= <<>>
    /\ ~IsSpace(t[1])
    /\ ~IsSpace(t[Len(t)])
    /\ \E i \in DOMAIN piece :
           /\ i + Len(t) - 1 <= Len(piece)
           /\ SubSeq(piece, i, i + Len(t) - 1) = t
           /\ \A j \in 1..(i - 1) : IsSpace(piece[j])
           /\ \A j \in (i + Len(t))..Len(piece) : IsSpace(piece[j])

\* the j-th smallest element of a set of numbers
RECURSIVE Nth(_, _)
Nth(set, j) ==
    LET least == CHOOSE x \in set : \A y \in set : x <= y
    IN  IF j = 1 THEN least ELSE Nth(set \ {least}, j - 1)

NoSeparator(s) == \A j \in DOMAIN s : ~IsSeparatorAt(s, j)

\* C19: the input is split exactly at the commas and the occurrences of
\* " and " in any letter case, read from the left (a word that only contains
\* "and" is not split); the pieces are trimmed, the blank ones dropped, and
\* the output holds one descriptor per remaining fragment, in input order
C19_SplitAtSeparators ==
    Parsed =>
        LET pieces == Split(rawQuery)
            kept == {i \in DOMAIN pieces : NonBlank(pieces[i])}
            frags == Fragments
        IN  /\ SplitsAt(rawQuery, 1, pieces)
            /\ NoSeparator(rawQuery) => Len(pieces) = 1
            /\ Len(frags) = Cardinality(kept)
            /\ Len(items) = Cardinality(kept)
            /\ \A j \in DOMAIN items :
                   /\ IsTrimOf(frags[j], pieces[Nth(kept, j)])
                   /\ items[j] = ParsePart(frags[j])

\* " And " in capitals splits, "Nand" does not, and a blank piece is dropped
C19_Witness ==
    /\ Parsed
    /\ rawQuery = <<"N", "a", "n", "d", " ", "A", "n", "d", " ", ",">>
    /\ Len(Split(rawQuery)) = 3
    /\ items = <<[qty |-> One, text |-> <<"N", "a", "n", "d">>]>>

(***************************************************************************)
(* One request for one item against an upstream whose first candidate      *)
(* carries any combination of the two energy labels                        *)
(***************************************************************************)
EnergyLabel == "Energy"
AtwaterLabel == "Energy (Atwater General Factors)"

\* the entries a candidate can carry under a label: none, value 0, or a value
EntriesFor(label, value) ==
    { <<>>,
      <<[nutrientName |-> label, value |-> Zero]>>,
      <<[nutrientName |-> label, value |-> value]>> }

\* candidate foods: the two energy labels in either order, then the rest
LabelledFoods ==
    { [description |-> <<"E", "G", "G">>, foodNutrients |-> first \o second \o rest] :
        first \in EntriesFor(EnergyLabel, Rat(143, 2)),
        second \in EntriesFor(AtwaterLabel, Rat(70, 1)),
        rest \in {<<>>, <<[nutrientName |-> "Protein", value |-> Rat(25, 4)]>>} }
    \cup
    { [description |-> <<"E", "G", "G">>, foodNutrients |-> first \o second \o rest] :
        first \in EntriesFor(AtwaterLabel, Rat(70, 1)),
        second \in EntriesFor(EnergyLabel, Rat(143, 2)),
        rest \in {<<>>, <<[nutrientName |-> "Protein", value |-> Rat(25, 4)]>>} }

\* the parsed answers: no candidate, one candidate, or a second one behind it
LabelledAnswers ==
    { [kind |-> "http", ok |-> TRUE, json |-> TRUE, data |-> [foods |-> <<>>]] }
    \cup { [kind |-> "http", ok |-> TRUE, json |-> TRUE, data |-> [foods |-> <<f>>]] :
             f \in LabelledFoods \cup {Egg, Tea, Ham} }
    \cup { [kind |-> "http", ok |-> TRUE, json |-> TRUE, data |-> [foods |-> <<f, g>>]] :
             f \in LabelledFoods \cup {Egg, Tea, Ham}, g \in {Egg, Tea} }

InitExtract ==
    /\ req = [query |-> [query |-> <<"2", " ", "e", "g", "g">>], body |-> NoParams]
    /\ apiKey = <<"k", "e", "y">>
    /\ stub \in { << << <<r>> >> >> : r \in LabelledAnswers }
    /\ pc = "start"
    /\ rawQuery = <<>>
    /\ items = <<>>
    /\ idx = 1
    /\ totalNutrients = ZeroTotals
    /\ foundItems = <<>>
    /\ notFoundItems = <<>>
    /\ itemText = <<>>
    /\ attempt = 0
    /\ inflight = <<>>
    /\ timers = <<>>
    /\ sent = <<>>
    /\ trace = <<>>
    /\ console = {}
    /\ ClientIdle
    /\ results = <<>>
    /\ failures = <<>>

\* the upstream call answers with the stub's candidates
LabelledFoundLast ==
    /\ pc = "fetching"
    /\ inflight /= <<>>
    /\ HasStubAnswer
    /\ IsParsed(StubAnswer)
    /\ Len(Foods(StubAnswer.data)) > 0
    /\ inflight' = Tail(inflight)
    /\ ReturnFrom("hit", NutrientResult(Foods(StubAnswer.data)[Len(Foods(StubAnswer.data))]))
LabelledFound ==
    /\ pc = "fetching"
    /\ inflight /= <<>>
    /\ HasStubAnswer
    /\ IsParsed(StubAnswer)
    /\ Len(Foods(StubAnswer.data)) > 0
    /\ inflight' = Tail(inflight)
    /\ ReturnFrom("hit", NutrientResult(Foods(StubAnswer.data)[1]))

NextExtract ==
    \/ Begin
    \/ CallResolver
    \/ IssueFetch
    \/ LabelledFound
    \/ StubNoResults
    \/ Respond

SpecExtract == InitExtract /\ [][NextExtract]_vars

(***************************************************************************)
(* Properties of the calories field                                        *)
(***************************************************************************)
\* the nutrient list of the first candidate of the answer
FirstCandidate == stub[1][1][1].data.foods[1]
FirstCandidateNutrients ==
    IF "foodNutrients" \in DOMAIN FirstCandidate THEN FirstCandidate.foodNutrients ELSE <<>>

HasLabel(list, label) == \E i \in DOMAIN list : list[i].nutrientName = label

\* the value listed under a label that is present
ValueUnder(list, label) ==
    list[CHOOSE i \in DOMAIN list : list[i].nutrientName = label].value

\* first present wins
FirstPresent(list) ==
    IF HasLabel(list, EnergyLabel) THEN ValueUnder(list, EnergyLabel)
    ELSE IF HasLabel(list, AtwaterLabel) THEN ValueUnder(list, AtwaterLabel)
    ELSE Zero

\* the resolver has returned a result built from the first candidate
Extracted == Len(results) = 1 /\ results[1].found

\* C20 as the contract states it: calories are the value under "Energy"
\* whenever that label is present in the first candidate's list, and the value
\* under "Energy (Atwater General Factors)" only when "Energy" is absent, for
\* every combination of values of the two labels
C20_FirstPresentWins ==
    Extracted => results[1].calories = FirstPresent(FirstCandidateNutrients)

\* what remains of C20 in the code: first present wins unless "Energy" is
\* present with the value 0
C20_HoldsUnlessEnergyIsZero ==
    Extracted =>
        LET list == FirstCandidateNutrients
        IN  ~(HasLabel(list, EnergyLabel) /\ ValueUnder(list, EnergyLabel) = Zero)
                => results[1].calories = FirstPresent(list)

\* "Energy" is present with the value 0 and the other label's value is returned
C20_ZeroEnergyFallsThrough ==
    /\ Extracted
    /\ HasLabel(FirstCandidateNutrients, EnergyLabel)
    /\ ValueUnder(FirstCandidateNutrients, EnergyLabel) = Zero
    /\ results[1].calories = Rat(70, 1)
    /\ sent /= <<>>
    /\ sent[1].body.calories = 140

\* the value listed under a label, 0 when the label is absent or carries no value
ListedOrZero(list, label) ==
    IF ~HasLabel(list, label) THEN Zero
    ELSE LET entry == list[CHOOSE i \in DOMAIN list : list[i].nutrientName = label]
         IN  IF "value" \in DOMAIN entry THEN entry.value ELSE Zero

\* C21: the result is built from the first candidate only: name is its
\* description, protein, carbs and fat are the values listed under "Protein",
\* "Carbohydrate, by difference" and "Total lipid (fat)", a field whose label is
\* absent is 0 (calories when both energy labels are absent), later candidates
\* play no part, and a first candidate without a nutrient list resolves with zeros
C21_BuiltFromFirstCandidate ==
    Extracted =>
        LET list == FirstCandidateNutrients
        IN  /\ results[1].name = FirstCandidate.description
            /\ results[1].protein = ListedOrZero(list, "Protein")
            /\ results[1].carbs = ListedOrZero(list, "Carbohydrate, by difference")
            /\ results[1].fat = ListedOrZero(list, "Total lipid (fat)")
            /\ (~HasLabel(list, EnergyLabel) /\ ~HasLabel(list, AtwaterLabel))
                   => results[1].calories = Zero
            /\ "foodNutrients" \notin DOMAIN FirstCandidate =>
                   /\ results[1].found
                   /\ results[1].calories = Zero
                   /\ results[1].protein = Zero
                   /\ results[1].carbs = Zero
                   /\ results[1].fat = Zero

\* a first candidate without a nutrient list, with a full candidate behind it
C21_Witness ==
    /\ Extracted
    /\ stub[1][1][1].data.foods = <<Ham, Egg>>
    /\ results[1].name = <<"H", "A", "M">>
    /\ results[1].protein = Zero
    /\ pc = "done"
    /\ sent[1].body.found

(***************************************************************************)
(* Properties of the name of an outcome                                    *)
(***************************************************************************)
\* the decimal text of the quantities the phrases use
QuantityText(q) ==
    IF q = Rat(1, 1) THEN <<"1">>
    ELSE IF q = Rat(2, 1) THEN <<"2">>
    ELSE IF q = Rat(3, 2) THEN <<"1", ".", "5">>
    ELSE IF q = Rat(1, 2) THEN <<"0", ".", "5">>
    ELSE <<"?">>

\* "<quantity> x <matched-name>" for the resolved items among the first k
RECURSIVE ResolvedEntries(_)
ResolvedEntries(k) ==
    IF k = 0 THEN <<>>
    ELSE IF results[k].found
         THEN Append(ResolvedEntries(k - 1),
                     QuantityText(items[k].qty) \o <<" ", "x", " ">> \o results[k].name)
         ELSE ResolvedEntries(k - 1)

\* the first k entries of a list with ", " between them
RECURSIVE JoinedUpTo(_, _)
JoinedUpTo(list, k) ==
    IF k = 0 THEN <<>>
    ELSE IF k = 1 THEN list[1]
    ELSE JoinedUpTo(list, k - 1) \o <<",", " ">> \o list[k]

\* C22: in every outcome with found = true, name is the entries
\* "<quantity> x <matched-name>" joined with ", ", one entry per resolved item
\* in phrase order and none for an item that did not resolve
C22_NameListsResolved ==
    (pc = "done" /\ Len(sent) = 1 /\ sent[1].status = 200 /\ sent[1].body.found) =>
        LET entries == ResolvedEntries(Len(results))
        IN  /\ Len(results) = Len(items)
            /\ Len(entries) = Cardinality(ResolvedItems)
            /\ Len(foundItems) = Cardinality(ResolvedItems)
            /\ sent[1].body.name = JoinedUpTo(entries, Len(entries))

\* the first and the third of three items resolved, the second did not
C22_Witness ==
    /\ pc = "done"
    /\ Len(sent) = 1
    /\ Len(results) = 3
    /\ ResolvedItems = {1, 3}
    /\ sent[1].body.name =
           <<"1", ".", "5", " ", "x", " ", "E", "G", "G", ",", " ", "1", " ", "x", " ", "T", "E", "A">>

(***************************************************************************)
(* Properties of repeated requests                                         *)
(***************************************************************************)
\* every call for an item gets the same answer, in both runs
DeterministicUpstream ==
    /\ Len(stub) = 2
    /\ stub[1] = stub[2]
    /\ \A i \in DOMAIN stub[1] : \A j \in DOMAIN stub[1][i] : stub[1][i][j] = stub[1][i][1]

\* C23: with an upstream that gives the same answers in both runs, the two
\* runs on the same phrase give identical outcomes and resolver results; the
\* first run leaves nothing behind that changes the second
C23_RerunIdentical ==
    (pc = "done" /\ Len(sent) = 2 /\ stub[1] = stub[2]) => SameOutcome

\* two runs of a two-item phrase: one item found, one failing on every call
C23_Witness ==
    /\ BothAnswered
    /\ DeterministicUpstream
    /\ Len(items) = 2
    /\ results[1].found
    /\ failures[2] = Retries + 1
    /\ sent[2].body.found
    /\ sent[2].body.calories > 0

(***************************************************************************)
(* Two requests in one function instance: the event loop runs one handler  *)
(* until it awaits, then may continue the other                            *)
(***************************************************************************)
\* what a handler invocation owns: its request, its locals, its pending upstream
\* call and timer, and its response
Context ==
    [req |-> req, pc |-> pc, rawQuery |-> rawQuery, items |-> items, idx |-> idx,
     totalNutrients |-> totalNutrients, foundItems |-> foundItems,
     notFoundItems |-> notFoundItems, itemText |-> itemText, attempt |-> attempt,
     inflight |-> inflight, timers |-> timers, sent |-> sent, trace |-> trace,
     results |-> results, failures |-> failures]

\* a handler that has not started on its request
Arrived(r) ==
    [req |-> r, pc |-> "start", rawQuery |-> <<>>, items |-> <<>>, idx |-> 1,
     totalNutrients |-> ZeroTotals, foundItems |-> <<>>, notFoundItems |-> <<>>,
     itemText |-> <<>>, attempt |-> 0, inflight |-> <<>>, timers |-> <<>>,
     sent |-> <<>>, trace |-> <<>>, results |-> <<>>, failures |-> <<>>]

PairRequests ==
    { [query |-> [query |-> <<"2", " ", "e", "g", "g", " ", "a", "n", "d", " ", "a", " ", "t", "e", "a">>],
       body |-> NoParams],
      [query |-> [query |-> <<"1", ".", "5", " ", "e", "g", "g">>], body |-> NoParams] }

InitPair ==
    /\ \E first \in PairRequests : \E second \in PairRequests \ {first} :
          /\ req = first
          /\ stub = Arrived(second)
    /\ apiKey = <<"k", "e", "y">>
    /\ pc = "start"
    /\ rawQuery = <<>>
    /\ items = <<>>
    /\ idx = 1
    /\ totalNutrients = ZeroTotals
    /\ foundItems = <<>>
    /\ notFoundItems = <<>>
    /\ itemText = <<>>
    /\ attempt = 0
    /\ inflight = <<>>
    /\ timers = <<>>
    /\ sent = <<>>
    /\ trace = <<>>
    /\ console = {}
    /\ ClientIdle
    /\ results = <<>>
    /\ failures = <<>>

\* the points where a handler is not running: before its callback starts, at
\* await fetch(...), at await new Promise(r => setTimeout(r, 300)), and after
\* its response
Waiting(p) == p \in {"start", "fetching", "backoff", "done"}

\* the running handler waits and the event loop continues the other one
SwitchSharingTotals ==
    /\ Waiting(pc)
    /\ stub' = Context
    /\ req' = stub.req
    /\ pc' = stub.pc
    /\ rawQuery' = stub.rawQuery
    /\ items' = stub.items
    /\ idx' = stub.idx
    /\ foundItems' = stub.foundItems
    /\ notFoundItems' = stub.notFoundItems
    /\ itemText' = stub.itemText
    /\ attempt' = stub.attempt
    /\ inflight' = stub.inflight
    /\ timers' = stub.timers
    /\ sent' = stub.sent
    /\ trace' = stub.trace
    /\ UNCHANGED console
    /\ results' = stub.results
    /\ failures' = stub.failures
    /\ UNCHANGED <<apiKey, totalNutrients, clientVars>>
Switch ==
    /\ Waiting(pc)
    /\ stub' = Context
    /\ req' = stub.req
    /\ pc' = stub.pc
    /\ rawQuery' = stub.rawQuery
    /\ items' = stub.items
    /\ idx' = stub.idx
    /\ totalNutrients' = stub.totalNutrients
    /\ foundItems' = stub.foundItems
    /\ notFoundItems' = stub.notFoundItems
    /\ itemText' = stub.itemText
    /\ attempt' = stub.attempt
    /\ inflight' = stub.inflight
    /\ timers' = stub.timers
    /\ sent' = stub.sent
    /\ trace' = stub.trace
    /\ UNCHANGED console
    /\ results' = stub.results
    /\ failures' = stub.failures
    /\ UNCHANGED <<apiKey, clientVars>>

NextPair ==
    \/ Begin
    \/ CallResolver
    \/ IssueFetch
    \/ FetchThrows
    \/ FetchNotOk
    \/ FetchFound
    \/ FetchNoResults
    \/ BackoffElapsed
    \/ Respond
    \/ Switch

SpecPair == InitPair /\ [][NextPair]_vars

(***************************************************************************)
(* Properties of concurrent requests                                       *)
(***************************************************************************)
\* the totals, found entries and missing texts a handler running alone has
\* after the first k items of its, given what the resolver returned for each
RECURSIVE AloneTotals(_, _, _)
AloneTotals(its, res, k) ==
    IF k = 0 THEN ZeroTotals
    ELSE IF res[k].found THEN AddTo(AloneTotals(its, res, k - 1), res[k], its[k].qty)
    ELSE AloneTotals(its, res, k - 1)

RECURSIVE AloneFound(_, _, _)
AloneFound(its, res, k) ==
    IF k = 0 THEN <<>>
    ELSE IF res[k].found THEN Append(AloneFound(its, res, k - 1), FoundEntry(its[k], res[k]))
    ELSE AloneFound(its, res, k - 1)

RECURSIVE AloneMissing(_, _, _)
AloneMissing(its, res, k) ==
    IF k = 0 THEN <<>>
    ELSE IF res[k].found THEN AloneMissing(its, res, k - 1)
    ELSE Append(AloneMissing(its, res, k - 1), its[k].text)

\* the response of a handler running alone on request r with resolver results res
AloneResponse(r, res) ==
    LET its == parseItems(RawQuery(r))
        n == Len(its)
    IN  [status |-> 200,
         body |-> IF AloneFound(its, res, n) = <<>>
                  THEN FailureBody(RawQuery(r))
                  ELSE SuccessBody(AloneTotals(its, res, n), AloneFound(its, res, n),
                                   AloneMissing(its, res, n))]

\* a finished handler answered as it would have alone
AnsweredAsAlone(c) ==
    /\ Len(c.results) = Len(parseItems(RawQuery(c.req)))
    /\ c.sent = <<AloneResponse(c.req, c.results)>>

\* the same for a single request that passed both checks
AloneAnsweredAsAlone == Answered => AnsweredAsAlone(Context)

\* C24: two requests whose handlers interleave at every await each return the
\* outcome they would return alone, given the answers their own upstream calls
\* got: totals, found items and missing items of one never reach the other
C24_ConcurrentAsAlone ==
    /\ (pc = "done" /\ stub.pc = "done") => AnsweredAsAlone(Context) /\ AnsweredAsAlone(stub)
    /\ pc = "done" => AnsweredAsAlone(Context)
    /\ stub.pc = "done" => AnsweredAsAlone(stub)

\* one handler waits for its second item's answer while the other is in its
\* backoff wait
C24_Interleaved ==
    /\ pc = "fetching"
    /\ results /= <<>>
    /\ stub.pc = "backoff"

\* both handlers have answered, each with its own totals
C24_Witness ==
    /\ pc = "done"
    /\ stub.pc = "done"
    /\ req /= stub.req
    /\ sent[1].body.found
    /\ stub.sent[1].body.found
    /\ sent[1].body.calories /= stub.sent[1].body.calories

(***************************************************************************)
(* Properties of the function's log                                        *)
(***************************************************************************)
\* the console is written where the code writes it: a request that was parsed
\* wrote the line of line 111, and an attempt that failed wrote an error line
ConsoleRecordsFailures ==
    /\ (Passed /\ pc /= "start") => "log" \in console
    /\ (\E i \in DOMAIN failures : failures[i] > 0) => "error" \in console
    /\ Failed(trace) > 0 => "error" \in console

\* C28: a request that arrives while the upstream credential is missing is
\* answered with a server-side error and an error line is written to the
\* server's log
C28_MissingKeyLogged ==
    (pc = "done" /\ RawQuery(req) /= <<>> /\ apiKey = <<>>) =>
        /\ sent[1].status = 500
        /\ console /= {}

\* the 500 answer was sent and nothing at all was written to the console
C28_NothingLogged ==
    /\ pc = "done"
    /\ RawQuery(req) /= <<>>
    /\ apiKey = <<>>
    /\ sent = <<[status |-> 500, body |-> [error |-> MsgNoApiKey]]>>
    /\ console = {}

(***************************************************************************)
(* Properties of a phrase without items                                    *)
(***************************************************************************)
\* C26: when a non-empty query segments into zero items, the handler reports
\* total failure, found = false with a message naming the phrase, and issues
\* no upstream call
C26_NoItemsIsTotalFailure ==
    (Passed /\ parseItems(RawQuery(req)) = <<>>) =>
        /\ inflight = <<>>
        /\ trace = <<>>
        /\ results = <<>>
        /\ timers = <<>>
        /\ pc \in {"start", "loop", "done"}
        /\ pc = "done" =>
              /\ Len(sent) = 1
              /\ sent[1].status = 200
              /\ DOMAIN sent[1].body = {"found", "error"}
              /\ sent[1].body.found = FALSE
              /\ Len(sent[1].body.error) = Len(RawQuery(req)) + 17
              /\ NamesPhrase(sent[1].body.error, RawQuery(req), 17)

\* the query "," was answered
C26_Witness ==
    /\ pc = "done"
    /\ apiKey /= <<>>
    /\ RawQuery(req) = <<",">>
    /\ items = <<>>
    /\ Len(sent) = 1

(***************************************************************************)
(* Properties of a fragment that is only a quantity token                  *)
(***************************************************************************)
\* C27: a fragment that consists only of a quantity token, with no remaining
\* text, gives a descriptor carrying that quantity (1 for an article), with a
\* text that is empty or the original fragment
C27_BareQuantityCarried ==
    Parsed =>
        LET frags == Fragments
        IN  \A k \in DOMAIN items :
                (k \in DOMAIN frags /\ (IsDecimal(frags[k]) \/ IsArticle(frags[k]))) =>
                    /\ items[k].qty = (IF IsArticle(frags[k]) THEN One ELSE ParseFloat(frags[k]))
                    /\ items[k].text \in {<<>>, frags[k]}

\* what the code does with such a fragment: quantity 1 and the token as text
C27_BareQuantityBecomesText ==
    Parsed =>
        LET frags == Fragments
        IN  \A k \in DOMAIN items :
                (k \in DOMAIN frags /\ (IsDecimal(frags[k]) \/ IsArticle(frags[k]))) =>
                    items[k] = [qty |-> One, text |-> frags[k]]

\* the fragment "2" became the item {1, "2"}
C27_TwoBecomesText ==
    /\ Parsed
    /\ rawQuery = <<"2">>
    /\ items = <<[qty |-> One, text |-> <<"2">>]>>

(***************************************************************************)
(* The client application: state, localStorage and the operations on them  *)
(***************************************************************************)
\* the keys of localStorage: 'macrometerState' and `meals_${today}`
StateKey == <<"macrometerState", 0>>
MealsKey(date) == <<"meals_", date>>

\* localStorage.getItem(key) is not null
HasItem(storage, key) == key \in DOMAIN storage

\* localStorage.setItem(key, text)
SetItem(storage, key, text) ==
    [k \in DOMAIN storage \cup {key} |-> IF k = key THEN text ELSE storage[k]]

\* JSON.stringify and JSON.parse of arrays and objects of strings and finite
\* integers: the text determines the value
Stringify(value) == [json |-> value]
ParseJSON(text) == text.json

\* state.history.slice(0, 30)
HistoryLimit == 30

\* saveGoals(): a goal input that is blank or zero falls back to this
DefaultGoals == [calories |-> 2000, protein |-> 150, carbs |-> 250, fat |-> 65]

\* parseInt(text) without a radix: leading white space is skipped, then an
\* optional sign, then the digits; after "0x" or "0X" the digits are
\* hexadecimal; NaN when no digit is there, and the rest of the text is ignored
HexDigits == Digits \o <<"a", "b", "c", "d", "e", "f">>

IsDigitOf(c, radix) ==
    LET lower == ToLower(c)
    IN  \E i \in 1..radix : HexDigits[i] = lower

DigitValOf(c) ==
    LET lower == ToLower(c)
    IN  (CHOOSE i \in DOMAIN HexDigits : HexDigits[i] = lower) - 1

RECURSIVE LeadingDigits(_, _)
LeadingDigits(text, radix) ==
    IF text = <<>> \/ ~IsDigitOf(text[1], radix) THEN <<>>
    ELSE <<text[1]>> \o LeadingDigits(Tail(text), radix)

RECURSIVE DigitsToInt(_, _)
DigitsToInt(s, radix) ==
    IF s = <<>> THEN 0
    ELSE radix * DigitsToInt(SubSeq(s, 1, Len(s) - 1), radix) + DigitValOf(s[Len(s)])

NaN == [nan |-> TRUE, value |-> 0]

ParseInt(text) ==
    LET trimmed == TrimLeft(text)
        signed == trimmed /= <<>> /\ trimmed[1] \in {"+", "-"}
        sign == IF trimmed /= <<>> /\ trimmed[1] = "-" THEN -1 ELSE 1
        unsigned == IF signed THEN Tail(trimmed) ELSE trimmed
        hex == Len(unsigned) >= 2 /\ unsigned[1] = "0" /\ unsigned[2] \in {"x", "X"}
        radix == IF hex THEN 16 ELSE 10
        digits == LeadingDigits(IF hex THEN Tail(Tail(unsigned)) ELSE unsigned, radix)
    IN  IF digits = <<>> THEN NaN
        ELSE [nan |-> FALSE, value |-> sign * DigitsToInt(digits, radix)]

\* parseInt(value) || fallback: NaN and 0 are falsy
ParseIntOrNaN(text, fallback) ==
    LET parsed == ParseInt(text)
    IN  IF parsed.nan THEN fallback ELSE parsed.value
ParseIntOr(text, fallback) ==
    LET parsed == ParseInt(text)
    IN  IF parsed.nan \/ parsed.value = 0 THEN fallback ELSE parsed.value

\* new Date().toLocaleTimeString(...) at the instant Date.now() = t
ClockText(t) == t

\* calculateTotals over a meal list
RECURSIVE TotalsOf(_)
TotalsOf(meals) ==
    IF meals = <<>> THEN [calories |-> 0, protein |-> 0, carbs |-> 0, fat |-> 0]
    ELSE LET acc == TotalsOf(SubSeq(meals, 1, Len(meals) - 1))
             meal == meals[Len(meals)]
         IN  [calories |-> acc.calories + meal.calories,
              protein  |-> acc.protein + meal.protein,
              carbs    |-> acc.carbs + meal.carbs,
              fat      |-> acc.fat + meal.fat]

\* state.pendingMeal = { name: query, calories: Math.round(data.calories), ... }
PendingFrom(query, data) ==
    [name     |-> query,
     calories |-> MathRound(Rat(data.calories, 1)),
     protein  |-> MathRound(Rat(data.protein, 1)),
     carbs    |-> MathRound(Rat(data.carbs, 1)),
     fat      |-> MathRound(Rat(data.fat, 1))]

\* { ...state.pendingMeal, id: Date.now(), time: ... } and the same of a favorite
MealFrom(source, t) ==
    [name |-> source.name, calories |-> source.calories, protein |-> source.protein,
     carbs |-> source.carbs, fat |-> source.fat, id |-> t, time |-> ClockText(t)]

\* { ...state.pendingMeal, id: Date.now() }
FavoriteFrom(pending, t) ==
    [name |-> pending.name, calories |-> pending.calories, protein |-> pending.protein,
     carbs |-> pending.carbs, fat |-> pending.fat, id |-> t]

\* saveState()
SaveState(st, storage) ==
    SetItem(storage, StateKey,
            Stringify([goals |-> st.goals, favorites |-> st.favorites, history |-> st.history]))

\* saveTodayMeals()
SaveTodayMeals(st, storage, date) == SetItem(storage, MealsKey(date), Stringify(st.meals))

\* state.history.findIndex(h => h.date === today), 0 when there is none
FindIndex(history, date) ==
    IF \E i \in DOMAIN history : history[i].date = date
    THEN CHOOSE i \in DOMAIN history :
             history[i].date = date /\ \A j \in 1..(i - 1) : history[j].date /= date
    ELSE 0

\* the history saveToHistory() leaves in state
KeepAllHistory(history) == history
KeepLast(history) == SubSeq(history, 1, IF Len(history) < HistoryLimit THEN Len(history) ELSE HistoryLimit)

HistoryAfterSave(st, date) ==
    LET totals == TotalsOf(st.meals)
        existingIndex == FindIndex(st.history, date)
        entry == [date |-> date, calories |-> totals.calories, protein |-> totals.protein,
                  carbs |-> totals.carbs, fat |-> totals.fat, goals |-> st.goals]
    IN  KeepLast(IF existingIndex > 0
                 THEN [st.history EXCEPT ![existingIndex] = entry]
                 ELSE <<entry>> \o st.history)

\* saveToHistory() on an application: the state object together with localStorage
SaveToHistory(app, date) ==
    LET st == [app.state EXCEPT !.history = HistoryAfterSave(app.state, date)]
    IN  [state |-> st, localStorage |-> SaveState(st, app.localStorage)]

\* state.meals.push(meal); saveTodayMeals(); saveToHistory()
PushMeal(app, meal, date) ==
    LET st == [app.state EXCEPT !.meals = Append(@, meal)]
    IN  SaveToHistory([state |-> st, localStorage |-> SaveTodayMeals(st, app.localStorage, date)],
                      date)

\* addMeal() with a pending meal; hidePendingMeal() clears it
AddMealToKeepingPending(app, date, t) ==
    PushMeal(app, MealFrom(app.state.pendingMeal, t), date)
AddMealTo(app, date, t) ==
    LET added == PushMeal(app, MealFrom(app.state.pendingMeal, t), date)
    IN  [added EXCEPT !.state.pendingMeal = NoMeal]

\* state.favorites.some(f => f.name.toLowerCase() === state.pendingMeal.name.toLowerCase())
IsFavoriteExact(st, name) ==
    \E i \in DOMAIN st.favorites : st.favorites[i].name = name
IsFavorite(st, name) ==
    \E i \in DOMAIN st.favorites : LowerStr(st.favorites[i].name) = LowerStr(name)

\* the part of addMealAndFavorite() before it calls addMeal()
AddFavoriteTo(app, t) ==
    IF IsFavorite(app.state, app.state.pendingMeal.name) THEN app
    ELSE LET st == [app.state EXCEPT !.favorites = Append(@, FavoriteFrom(app.state.pendingMeal, t))]
         IN  [state |-> st, localStorage |-> SaveState(st, app.localStorage)]

\* loadState() on the state object of a freshly loaded page
LoadState(storage, date) ==
    LET parsed == ParseJSON(storage[StateKey])
        withSaved == IF HasItem(storage, StateKey)
                     THEN [InitialState EXCEPT !.goals = parsed.goals,
                                               !.favorites = parsed.favorites,
                                               !.history = parsed.history]
                     ELSE InitialState
    IN  IF HasItem(storage, MealsKey(date))
        THEN [withSaved EXCEPT !.meals = ParseJSON(storage[MealsKey(date)])]
        ELSE withSaved

(***************************************************************************)
(* The client application as a state machine                               *)
(***************************************************************************)
\* the latest time of day reached: an operation of the user happens at a
\* later instant than the one before
MaxNow == 7

\* the instants of one date (UTC)
DayLength == MaxNow + 1

\* Date.now() on the date at the time of day
Instant(date, time) == date * DayLength + time

\* Date.now()
DateNow == Instant(today, now)

\* new Date(t).toISOString().split('T')[0]: the date of an instant
DateOf(t) == t \div DayLength

\* the answer of the function to the query, for a phrase of one item that the
\* upstream answered with the food
OutcomeFor(query, food) ==
    LET item == parseItems(query)[1]
        result == NutrientResult(food)
    IN  SuccessBody(AddTo(ZeroTotals, result, item.qty), <<FoundEntry(item, result)>>, <<>>)

\* the lookups the user makes: the query typed and the answer received
Lookups ==
    { [query |-> <<"2", " ", "e", "g", "g">>,
       data |-> OutcomeFor(<<"2", " ", "e", "g", "g">>, Egg)],
      [query |-> <<"t", "e", "a">>, data |-> OutcomeFor(<<"t", "e", "a">>, Tea)] }

\* what the user leaves in the four goal inputs before pressing Save
GoalForms ==
    { [calories |-> <<"1", "8", "0", "0">>, protein |-> <<"1", "2", "0">>,
       carbs |-> <<"0">>, fat |-> <<>>] }


\* the server is not part of the client specifications
ServerIdle ==
    /\ req = [query |-> NoParams, body |-> NoParams]
    /\ apiKey = <<"k", "e", "y">>
    /\ stub = <<>>
    /\ pc = "start"
    /\ rawQuery = <<>>
    /\ items = <<>>
    /\ idx = 1
    /\ totalNutrients = ZeroTotals
    /\ foundItems = <<>>
    /\ notFoundItems = <<>>
    /\ itemText = <<>>
    /\ attempt = 0
    /\ inflight = <<>>
    /\ timers = <<>>
    /\ sent = <<>>
    /\ trace = <<>>
    /\ results = <<>>
    /\ failures = <<>>
    /\ console = {}

\* a first visit: nothing is stored, DOMContentLoaded has run loadState()
InitClient ==
    /\ ServerIdle
    /\ localStorage = <<>>
    /\ today = 1
    /\ now = 1
    /\ opened = 1
    /\ state = LoadState(<<>>, 1)
    /\ lookupBtn = [disabled |-> FALSE]
    /\ fetches = <<>>

App == [state |-> state, localStorage |-> localStorage]

Become(app) ==
    /\ now < MaxNow
    /\ now' = now + 1
    /\ state' = app.state
    /\ localStorage' = app.localStorage
    /\ UNCHANGED <<serverVars, today, opened, lookupBtn, fetches>>

\* lookupMeal() with an answer with found = true, for one of the lookups
LookupMealOf(lookups) ==
    \E l \in lookups :
        Become([App EXCEPT !.state.pendingMeal = PendingFrom(l.query, l.data)])

LookupMeal == LookupMealOf(Lookups)

\* addMeal()
AddMeal ==
    IF state.pendingMeal = NoMeal THEN UNCHANGED vars
    ELSE Become(AddMealTo(App, today, DateNow))

\* addMealAndFavorite()
AddMealAndFavorite ==
    IF state.pendingMeal = NoMeal THEN UNCHANGED vars
    ELSE Become(AddMealTo(AddFavoriteTo(App, DateNow), today, DateNow))

\* cancelPending()
CancelPending ==
    IF state.pendingMeal = NoMeal THEN UNCHANGED vars
    ELSE Become([App EXCEPT !.state.pendingMeal = NoMeal])

\* removeMeal(id), from the button of a meal in the list
RemoveMeal ==
    \E i \in DOMAIN state.meals :
        LET st == [state EXCEPT !.meals = SelectSeq(@, LAMBDA meal : meal.id /= state.meals[i].id)]
        IN  Become(SaveToHistory([state |-> st,
                                  localStorage |-> SaveTodayMeals(st, localStorage, today)],
                                 today))

\* what addFavoriteToMeals(id) makes of the application, for the id of the
\* i-th favorite in the list: find() takes the first favorite with the id
WithFavoriteAdded(i) ==
    LET id == state.favorites[i].id
        fav == state.favorites[CHOOSE j \in DOMAIN state.favorites :
                                   /\ state.favorites[j].id = id
                                   /\ \A k \in 1..(j - 1) : state.favorites[k].id /= id]
    IN  PushMeal(App, MealFrom(fav, DateNow), today)

\* addFavoriteToMeals(id), from the button of a favorite in the list
AddFavoriteToMeals == \E i \in DOMAIN state.favorites : Become(WithFavoriteAdded(i))

\* removeFavorite(id), from the button of a favorite in the list
RemoveFavorite ==
    \E i \in DOMAIN state.favorites :
        LET st == [state EXCEPT !.favorites =
                       SelectSeq(@, LAMBDA fav : fav.id /= state.favorites[i].id)]
        IN  Become([state |-> st, localStorage |-> SaveState(st, localStorage)])

\* saveGoals() with the texts of the form in the four goal inputs
SaveGoalsFrom(form) ==
    LET st == [state EXCEPT !.goals =
                   [calories |-> ParseIntOr(form.calories, DefaultGoals.calories),
                    protein  |-> ParseIntOr(form.protein, DefaultGoals.protein),
                    carbs    |-> ParseIntOr(form.carbs, DefaultGoals.carbs),
                    fat      |-> ParseIntOr(form.fat, DefaultGoals.fat)]]
    IN  Become([state |-> st, localStorage |-> SaveState(st, localStorage)])

\* saveGoals()
SaveGoals == \E form \in GoalForms : SaveGoalsFrom(form)

\* clearMeals(), confirmed
ClearMealsUnsaved ==
    Become([App EXCEPT !.state.meals = <<>>])
ClearMeals ==
    LET st == [state EXCEPT !.meals = <<>>]
    IN  Become([state |-> st, localStorage |-> SaveTodayMeals(st, localStorage, today)])

\* clearHistory(), confirmed
ClearHistory ==
    LET st == [state EXCEPT !.history = <<>>]
    IN  Become([state |-> st, localStorage |-> SaveState(st, localStorage)])

\* the page is loaded again: a fresh state object, then loadState()
Reload ==
    /\ now < MaxNow
    /\ now' = now + 1
    /\ state' = LoadState(localStorage, today)
    /\ opened' = today
    /\ lookupBtn' = [disabled |-> FALSE]
    /\ fetches' = <<>>
    /\ UNCHANGED <<serverVars, localStorage, today>>

\* midnight (UTC) passes
NextDay ==
    /\ now < MaxNow
    /\ now' = now + 1
    /\ today' = today + 1
    /\ UNCHANGED <<serverVars, state, localStorage, opened, lookupBtn, fetches>>

NextClient ==
    \/ LookupMeal
    \/ AddMeal
    \/ AddMealAndFavorite
    \/ CancelPending
    \/ RemoveMeal
    \/ AddFavoriteToMeals
    \/ RemoveFavorite
    \/ SaveGoals
    \/ ClearMeals
    \/ ClearHistory
    \/ Reload
    \/ NextDay

SpecClient == InitClient /\ [][NextClient]_vars

(***************************************************************************)
(* Properties of what the client stores                                    *)
(***************************************************************************)
\* what a reload of the page would put in state now
Reloaded == LoadState(localStorage, today)

\* two states hold the same goals, favorites, history and meal list
SameData(a, b) ==
    /\ a.goals = b.goals
    /\ a.favorites = b.favorites
    /\ a.history = b.history
    /\ a.meals = b.meals

\* no midnight has passed since the page was loaded
OneDate == opened = today

\* C25: after any sequence of completed operations on one calendar date,
\* reloading the page restores the goals, favorites, history and today's meal
\* list that were in memory before the reload
C25_ReloadRestores == OneDate => SameData(Reloaded, state)

\* a meal, a favorite, changed goals and a history entry are in memory
C25_Witness ==
    /\ OneDate
    /\ state.meals /= <<>>
    /\ state.favorites /= <<>>
    /\ state.history /= <<>>
    /\ state.goals /= DefaultGoals
    /\ SameData(Reloaded, state)
    /\ Reloaded /= InitialState

(***************************************************************************)
(* Properties of the history                                               *)
(***************************************************************************)
HasEntryFor(st, date) == \E i \in DOMAIN st.history : st.history[i].date = date

\* every entry of the date carries the sums over the meal list
EntryFollowsMeals(st, date) ==
    \A i \in DOMAIN st.history :
        st.history[i].date = date =>
            /\ st.history[i].calories = TotalsOf(st.meals).calories
            /\ st.history[i].protein = TotalsOf(st.meals).protein
            /\ st.history[i].carbs = TotalsOf(st.meals).carbs
            /\ st.history[i].fat = TotalsOf(st.meals).fat

\* an operation on the open page has changed the meal list
MealsChanged == state'.meals /= state.meals /\ opened' = opened

\* C30: whenever the history holds an entry for today, after any completed
\* operation that changes today's meal list (add meal, add favorite to meals,
\* remove meal, clear meals) that entry's calories, protein, carbs and fat are
\* the sums over the current meal list
C30_HistoryFollowsMeals ==
    [][(MealsChanged /\ HasEntryFor(state', today')) => EntryFollowsMeals(state', today')]_vars

\* what remains of C30 in the code: it holds after every operation but clearMeals
C30_HoldsExceptAfterClear ==
    [][ClearMeals \/
       ((MealsChanged /\ HasEntryFor(state', today')) => EntryFollowsMeals(state', today'))]_vars

\* the meal list is empty and today's entry still carries the calories of the
\* meals that were cleared
C30_StaleEntry ==
    /\ state.meals = <<>>
    /\ OneDate
    /\ \E i \in DOMAIN state.history :
           state.history[i].date = today /\ state.history[i].calories > 0

(***************************************************************************)
(* The client after days of use: each day the page was opened, "2 egg" was *)
(* looked up and the meal added                                            *)
(***************************************************************************)
EggLookup == CHOOSE l \in Lookups : l.query = <<"2", " ", "e", "g", "g">>

\* the days of earlier use that are followed
MaxDays == 31

\* a day of earlier use, before the session that is followed: the page is
\* opened on the next date, "2 egg" is looked up and addMeal() run
DayOfUse ==
    LET loaded == [LoadState(localStorage, today + 1) EXCEPT
                       !.pendingMeal = PendingFrom(EggLookup.query, EggLookup.data)]
        added == AddMealTo([state |-> loaded, localStorage |-> localStorage], today + 1,
                          Instant(today + 1, now))
    IN  /\ now = 1
        /\ today <= MaxDays
        /\ today' = today + 1
        /\ opened' = today + 1
        /\ state' = added.state
        /\ localStorage' = added.localStorage
        /\ UNCHANGED <<serverVars, now, lookupBtn, fetches>>

NextHistory ==
    \/ DayOfUse
    \/ LookupMeal
    \/ AddMeal
    \/ RemoveMeal
    \/ ClearHistory
    \/ Reload
    \/ NextDay

SpecHistory == InitClient /\ [][NextHistory]_vars

(***************************************************************************)
(* Properties of the length of the history                                 *)
(***************************************************************************)
\* at most 30 entries, at most one per date, the newest first
HistoryWellFormed ==
    /\ Len(state.history) <= 30
    /\ \A i, j \in DOMAIN state.history :
           i < j => state.history[i].date > state.history[j].date

\* saveToHistory() has changed the history
Saved == state'.history /= state.history /\ state'.history /= <<>>

\* the entry of today was replaced where it stood
ReplacedInPlace ==
    /\ Len(state'.history) = Len(state.history)
    /\ \A i \in DOMAIN state.history :
           IF state.history[i].date = today'
           THEN state'.history[i].date = today'
           ELSE state'.history[i] = state.history[i]

\* an entry for today was put in front, and the oldest entry dropped when
\* there were 30
AddedInFront ==
    /\ state'.history[1].date = today'
    /\ IF Len(state.history) < 30
       THEN Tail(state'.history) = state.history
       ELSE /\ Len(state'.history) = 30
            /\ Tail(state'.history) = SubSeq(state.history, 1, 29)
            /\ \A i \in DOMAIN state.history :
                   state.history[30].date <= state.history[i].date

\* C29: the history holds at most 30 entries and at most one per date; saving
\* on a date that has an entry replaces it in place, and saving on a new date
\* puts the entry in front and drops the oldest one when that would make 31
C29_HistoryBounded ==
    /\ []HistoryWellFormed
    /\ [][Saved => IF HasEntryFor(state, today') THEN ReplacedInPlace ELSE AddedInFront]_vars

\* the entry of the 31st date of use is in front and that of the first is gone
C29_Witness ==
    /\ Len(state.history) = 30
    /\ state.history[1].date = 32
    /\ state.history[30].date = 3
    /\ HasItem(localStorage, MealsKey(2))
    /\ now > 1

(***************************************************************************)
(* The goal form: one input is edited and Save pressed                     *)
(***************************************************************************)
GoalFields == {"calories", "protein", "carbs", "fat"}

\* the texts typed into a goal input
GoalTexts ==
    { <<>>, <<" ">>, <<"0">>, <<"0", "0">>, <<"-", "0">>, <<"k", "g">>,
      <<"1", "8", "0", "0">>, <<"-", "5">>, <<"0", ".", "5">>,
      <<" ", "1", "2", "g">>, <<"0", "x", "1", "0">>, <<"+", "7">> }

\* the text an input shows for a goal: loadState() puts the goals there
GoalText(goal) == IF goal < 0 THEN <<"-">> \o NatToStr(-goal) ELSE NatToStr(goal)

\* the text is typed into the input of one goal, the other inputs still
\* hold their goals, and saveGoals() runs
EditGoalAndSave ==
    \E field \in GoalFields, text \in GoalTexts :
        SaveGoalsFrom([f \in GoalFields |->
                          IF f = field THEN text ELSE GoalText(state.goals[f])])

NextGoals ==
    \/ EditGoalAndSave
    \/ Reload

SpecGoals == InitClient /\ [][NextGoals]_vars

(***************************************************************************)
(* Properties of the goals                                                 *)
(***************************************************************************)
\* only white space
IsBlank(text) == \A i \in DOMAIN text : IsSpace(text[i])

\* after white space and an optional sign, the text does not begin with a digit
IsNonNumeric(text) ==
    LET trimmed == TrimLeft(text)
        unsigned == IF trimmed /= <<>> /\ trimmed[1] \in {"+", "-"} THEN Tail(trimmed)
                    ELSE trimmed
    IN  unsigned = <<>> \/ ~IsDigit(unsigned[1])

\* white space, an optional sign and then zeros only
IsZeroText(text) ==
    LET trimmed == Trim(text)
        unsigned == IF trimmed /= <<>> /\ trimmed[1] \in {"+", "-"} THEN Tail(trimmed)
                    ELSE trimmed
    IN  unsigned /= <<>> /\ \A i \in DOMAIN unsigned : unsigned[i] = "0"

\* C37: every goal is a non-zero integer, and a goal input that is blank,
\* non-numeric or zero gives the default of its goal
C37_GoalsNonZero ==
    /\ \A f \in GoalFields : state.goals[f] \in Int /\ state.goals[f] /= 0
    /\ \A f \in GoalFields, text \in GoalTexts :
           IsBlank(text) \/ IsNonNumeric(text) \/ IsZeroText(text)
               => ParseIntOr(text, DefaultGoals[f]) = DefaultGoals[f]
    /\ HasItem(localStorage, StateKey) => ParseJSON(localStorage[StateKey]).goals = state.goals

\* goals were saved from a hexadecimal and a negative text, and a goal that
\* had been changed is back at its default
C37_Witness ==
    /\ state.goals.calories = 16
    /\ state.goals.fat = -5
    /\ state.goals.carbs = DefaultGoals.carbs
    /\ state.goals.protein = 12
    /\ HasItem(localStorage, StateKey)

(***************************************************************************)
(* Properties of the dates of the meals                                    *)
(***************************************************************************)
\* the id of a meal is Date.now() of the moment it was added
AddedOn(meal) == DateOf(meal.id)

\* the dates that have a stored meal list
StoredDates == {key[2] : key \in {k \in DOMAIN localStorage : k[1] = "meals_"}}

StoredMeals(date) == ParseJSON(localStorage[MealsKey(date)])

\* every meal of every stored list was added on the date of the key
StoredUnderOwnDate ==
    \A date \in StoredDates :
        \A i \in DOMAIN StoredMeals(date) : AddedOn(StoredMeals(date)[i]) = date

\* the entry saveToHistory() wrote for today sums meals added today only
EntryOfOwnDate ==
    state'.history /= state.history /\ HasEntryFor(state', today')
        => /\ \A i \in DOMAIN state'.meals : AddedOn(state'.meals[i]) = today'
           /\ EntryFollowsMeals(state', today')

\* C38: the meal list stored under a date and the history totals of a date
\* contain only meals added on that date, also when the date changes while
\* the page stays open
C38_OnlyMealsOfTheDate == []StoredUnderOwnDate /\ [][EntryOfOwnDate]_vars

\* the page stayed open over midnight and the list stored for the new date
\* holds a meal of the date before
C38_CarriedOver ==
    /\ today = opened + 1
    /\ HasItem(localStorage, MealsKey(today))
    /\ \E i \in DOMAIN StoredMeals(today) : AddedOn(StoredMeals(today)[i]) = opened
    /\ \E i \in DOMAIN state.history :
           /\ state.history[i].date = today
           /\ state.history[i].calories > TotalsOf(SelectSeq(state.meals,
                                              LAMBDA meal : AddedOn(meal) = today)).calories

(***************************************************************************)
(* Clicks handled within one millisecond                                   *)
(***************************************************************************)
\* the longest meal list followed
MaxMeals == 3

\* a handler has run and Date.now() still returns the same value
BecomeAtOnce(app) ==
    /\ state' = app.state
    /\ localStorage' = app.localStorage
    /\ UNCHANGED <<serverVars, today, now, opened, lookupBtn, fetches>>

\* addFavoriteToMeals(id), with the next click handled within the millisecond
AddFavoriteToMealsAtOnce ==
    /\ Len(state.meals) < MaxMeals
    /\ \E i \in DOMAIN state.favorites : BecomeAtOnce(WithFavoriteAdded(i))

NextBurst ==
    \/ LookupMeal
    \/ AddMeal
    \/ AddMealAndFavorite
    \/ AddFavoriteToMeals
    \/ AddFavoriteToMealsAtOnce
    \/ RemoveMeal

SpecBurst == InitClient /\ [][NextBurst]_vars

(***************************************************************************)
(* Properties of the ids of the meals                                      *)
(***************************************************************************)
IdsDistinct ==
    \A i, j \in DOMAIN state.meals : i /= j => state.meals[i].id /= state.meals[j].id

\* the list without its i-th meal
WithoutNth(meals, i) == SubSeq(meals, 1, i - 1) \o SubSeq(meals, i + 1, Len(meals))

\* a removal took exactly one meal out and kept the others in their order
RemovedOne ==
    RemoveMeal => \E i \in DOMAIN state.meals : state'.meals = WithoutNth(state.meals, i)

\* C36: the ids of the meals in the log are pairwise distinct, and removeMeal
\* removes exactly one meal and leaves the others in their order
C36_RemovesExactlyOne == []IdsDistinct /\ [][RemovedOne]_vars

\* two meals of the log have one id, from two clicks within a millisecond
C36_SharedId ==
    /\ Len(state.meals) >= 2
    /\ \E i, j \in DOMAIN state.meals : i < j /\ state.meals[i].id = state.meals[j].id

\* removeMeal takes more than one meal out of the log
C36_RemovedOne == [][RemovedOne]_vars

\* with every click at a later millisecond than the one before, the ids are
\* distinct and a removal takes one meal
C36_HoldsAtDistinctInstants == []IdsDistinct /\ [][IdsDistinct => RemovedOne]_vars

(***************************************************************************)
(* Properties of the pending meal                                          *)
(***************************************************************************)
\* the meal list grew by one meal, made from the pending meal
PendingLogged ==
    /\ state.pendingMeal /= NoMeal
    /\ Len(state'.meals) = Len(state.meals) + 1
    /\ SubSeq(state'.meals, 1, Len(state.meals)) = state.meals
    /\ state'.meals[Len(state'.meals)].name = state.pendingMeal.name
    /\ state'.meals[Len(state'.meals)].calories = state.pendingMeal.calories

\* addMeal() and addMealAndFavorite() log the pending meal once and clear it,
\* and change nothing without one
LoggedOnce ==
    AddMeal \/ AddMealAndFavorite
        => /\ state'.pendingMeal = NoMeal
           /\ IF state.pendingMeal = NoMeal
              THEN UNCHANGED <<state, localStorage>>
              ELSE PendingLogged

\* cancelPending() clears the pending meal and nothing else
Cancelled ==
    CancelPending
        => /\ state' = [state EXCEPT !.pendingMeal = NoMeal]
           /\ localStorage' = localStorage

\* a meal list only grows by a pending meal or by a favorite
GrowsFromPending ==
    Len(state'.meals) > Len(state.meals) /\ opened' = opened
        => PendingLogged \/ AddFavoriteToMeals

\* C32: addMeal and addMealAndFavorite change nothing without a pending meal
\* and clear it when they have run, so one lookup is logged at most once;
\* cancelPending clears the pending meal and leaves the rest unchanged
C32_LoggedAtMostOnce == [][LoggedOnce /\ Cancelled /\ GrowsFromPending]_vars

\* a looked-up meal was logged and the pending meal cleared by it
C32_Witness ==
    /\ Len(state.meals) = 1
    /\ state.favorites = <<>>
    /\ state.pendingMeal = NoMeal
    /\ HasEntryFor(state, today)
    /\ now = 3

(***************************************************************************)
(* The favorites, with names that differ in the case of their letters      *)
(***************************************************************************)
\* lookups of one meal under names that differ in case only, and of another
CasedLookups ==
    { [query |-> q, data |-> OutcomeFor(q, Tea)] :
          q \in {<<"t", "e", "a">>, <<"T", "e", "a">>, <<"T", "E", "A">>} }
    \cup {EggLookup}

LookupMealCased == LookupMealOf(CasedLookups)

NextFavorites ==
    \/ LookupMealCased
    \/ AddMealAndFavorite
    \/ RemoveFavorite
    \/ Reload

SpecFavorites == InitClient /\ [][NextFavorites]_vars

\* the texts are equal when the case of the letters is ignored
EqualIgnoringCase(a, b) ==
    /\ Len(a) = Len(b)
    /\ \A i \in DOMAIN a : ToLower(a[i]) = ToLower(b[i])

NamesDistinct(favorites) ==
    \A i, j \in DOMAIN favorites :
        i /= j => ~EqualIgnoringCase(favorites[i].name, favorites[j].name)

\* the name of the pending meal is the name of a favorite but for case
PendingIsFavorite ==
    \E i \in DOMAIN state.favorites :
        EqualIgnoringCase(state.favorites[i].name, state.pendingMeal.name)

\* addMealAndFavorite() with the name of a favorite leaves the favorites and
\* logs the meal
KnownNameLogged ==
    AddMealAndFavorite /\ state.pendingMeal /= NoMeal /\ PendingIsFavorite
        => /\ state'.favorites = state.favorites
           /\ PendingLogged

\* C31: no two favorites have names equal ignoring case, and adding a meal
\* whose name is a favorite already leaves the favorites and logs the meal
C31_FavoriteNamesDistinct ==
    /\ [](NamesDistinct(state.favorites) /\ NamesDistinct(Reloaded.favorites))
    /\ [][KnownNameLogged]_vars

\* "tea" is a favorite, and a meal "Tea" or "TEA" was logged without becoming one
C31_Witness ==
    /\ Len(state.favorites) = 1
    /\ state.favorites[1].name = <<"t", "e", "a">>
    /\ \E i \in DOMAIN state.meals : state.meals[i].name \in {<<"T", "e", "a">>, <<"T", "E", "A">>}

(***************************************************************************)
(* lookupMeal() step by step: the request is sent, then the answer handled *)
(***************************************************************************)
\* the texts in the meal input when a lookup is asked for
MealTexts ==
    { <<"2", " ", "e", "g", "g">>, <<" ", "t", "e", "a", " ">>, <<" ">>, <<>> }

\* lookupMeal() up to the fetch: a blank input only shows a toast
StartLookup(text) ==
    IF Trim(text) = <<>> THEN UNCHANGED vars
    ELSE /\ now < MaxNow
         /\ now' = now + 1
         /\ lookupBtn' = [disabled |-> TRUE]
         /\ fetches' = Append(fetches, [query |-> Trim(text), sent |-> DateNow,
                                        handled |-> 0, shown |-> FALSE])
         /\ UNCHANGED <<serverVars, state, localStorage, today, opened>>

\* a click on the lookup button: a disabled button gets no click
ClickLookup ==
    /\ ~lookupBtn.disabled
    /\ \E text \in MealTexts : StartLookup(text)

\* the Enter key in the meal input
PressEnter == \E text \in MealTexts : StartLookup(text)

\* the answer of the function with found = true, for the queries that have one
FoundData(query) == (CHOOSE l \in Lookups : l.query = query).data

\* the answers with an error or with found = false
RefusedData(query) == {FailureBody(query), [error |-> MsgNoApiKey]}

\* data.error || !data.found
Refused(data) ==
    \/ "error" \in DOMAIN data /\ data.error /= <<>>
    \/ ~("found" \in DOMAIN data /\ data.found)

\* the finally block: the button after a lookup
AfterLookupOnSuccess(shows) == [disabled |-> ~shows]
AfterLookup(shows) == [disabled |-> FALSE]

\* lookupMeal() from the answer on, for the i-th request: fetch() or
\* response.json() throws, or the data is refused, or the pending meal is set
HandleAnswer(i, answer) ==
    LET f == fetches[i]
        shows == ~answer.throws /\ ~Refused(answer.data)
    IN  /\ f.handled = 0
        /\ now < MaxNow
        /\ now' = now + 1
        /\ state' = IF shows
                    THEN [state EXCEPT !.pendingMeal = PendingFrom(f.query, answer.data)]
                    ELSE state
        /\ lookupBtn' = AfterLookup(shows)
        /\ fetches' = [fetches EXCEPT ![i] = [@ EXCEPT !.handled = DateNow, !.shown = shows]]
        /\ UNCHANGED <<serverVars, localStorage, today, opened>>

ResponseFound ==
    \E i \in DOMAIN fetches :
        /\ \E l \in Lookups : l.query = fetches[i].query
        /\ HandleAnswer(i, [throws |-> FALSE, data |-> FoundData(fetches[i].query)])

ResponseRefused ==
    \E i \in DOMAIN fetches :
        \E data \in RefusedData(fetches[i].query) :
            HandleAnswer(i, [throws |-> FALSE, data |-> data])

ResponseFails ==
    \E i \in DOMAIN fetches : HandleAnswer(i, [throws |-> TRUE, data |-> <<>>])

NextLookup ==
    \/ ClickLookup
    \/ PressEnter
    \/ ResponseFound
    \/ ResponseRefused
    \/ ResponseFails
    \/ AddMeal
    \/ CancelPending

SpecLookup == InitClient /\ [][NextLookup]_vars

(***************************************************************************)
(* Properties of the lookups                                               *)
(***************************************************************************)
InFlight == {i \in DOMAIN fetches : fetches[i].handled = 0}

\* the request whose result is the pending meal: the last one shown
IsShownNow(j) ==
    /\ state.pendingMeal /= NoMeal
    /\ fetches[j].shown
    /\ \A k \in DOMAIN fetches : fetches[k].shown => fetches[k].handled <= fetches[j].handled

\* the answer to a request is shown in place of the result of a later request
StaleShown ==
    \E i, j \in DOMAIN fetches :
        /\ i < j
        /\ i \in InFlight
        /\ IsShownNow(j)
        /\ Len(fetches') = Len(fetches)
        /\ fetches'[i].shown

\* C33: the answer to an earlier lookup never replaces the result of a later
\* lookup as the pending meal
C33_LaterLookupStays == [][~StaleShown]_vars

\* the pending meal is the result of the first of two lookups, shown after
\* the result of the second
C33_EarlierShownLast ==
    /\ Len(fetches) = 2
    /\ fetches[1].shown /\ fetches[2].shown
    /\ fetches[1].handled > fetches[2].handled
    /\ state.pendingMeal.name = fetches[1].query
    /\ fetches[1].query /= fetches[2].query

\* C34: at most one lookup request is in flight
C34_OneInFlight == Cardinality(InFlight) <= 1

\* two requests are in flight, the second sent while the button was disabled
C34_TwoInFlight ==
    /\ Cardinality(InFlight) = 2
    /\ lookupBtn.disabled

\* a lookup that fails changes nothing of the state or the storage
FailureChangesNothing ==
    ResponseRefused \/ ResponseFails => UNCHANGED <<state, localStorage>>

\* the button is enabled after every lookup
ButtonEnabledAfter ==
    ResponseFound \/ ResponseRefused \/ ResponseFails => ~lookupBtn'.disabled

\* every request sent carries a query that is not blank
NoBlankRequest ==
    Len(fetches') > Len(fetches)
        => \E c \in Range(fetches'[Len(fetches')].query) : ~IsSpace(c)

\* C35: a lookup that ends in an error, in found = false or in a thrown
\* failure leaves pending meal, meals, favorites, history and goals as they
\* were; the button is enabled after every lookup; a blank input sends nothing
C35_FailedLookupChangesNothing ==
    [][FailureChangesNothing /\ ButtonEnabledAfter /\ NoBlankRequest]_vars

\* a pending meal is shown, a later lookup has failed, and the button is
\* enabled again
C35_Witness ==
    /\ state.pendingMeal /= NoMeal
    /\ ~lookupBtn.disabled
    /\ InFlight = {}
    /\ \E i, j \in DOMAIN fetches : i < j /\ fetches[i].shown /\ ~fetches[j].shown

(***************************************************************************)
(* One request under fair scheduling                                       *)
(***************************************************************************)
\* the positions of the handler
Positions == {"start", "loop", "attempt", "fetching", "backoff", "done"}

\* the handler leaves the position it is at
Leaves(p) == pc = p /\ pc' \in Positions \ {p}

\* the event loop runs the handler when it waits for nothing: it rejects or
\* begins, calls the resolver or responds, issues the fetch or returns null
HandlerRuns == Leaves("start") \/ Leaves("loop") \/ Leaves("attempt")

\* the upstream call in flight returns or throws
UpstreamAnswers == Leaves("fetching")

\* the timer of the backoff fires
TimerFires == Leaves("backoff")

\* at every position but the last a step of the handler is possible: an
\* upstream call is in flight while it is fetching, a timer is set while it
\* backs off
NeverStuck ==
    /\ pc \in Positions
    /\ pc = "fetching" => inflight /= <<>>
    /\ pc = "backoff" => timers /= <<>>
    /\ pc = "loop" => idx <= Len(items) + 1

\* a runnable step of the handler is run, a call in flight is answered and a
\* timer that was set fires
SpecLive ==
    /\ Init
    /\ [][Next]_vars
    /\ WF_pc(HandlerRuns)
    /\ WF_pc(UpstreamAnswers)
    /\ WF_pc(TimerFires)

(***************************************************************************)
(* Properties of the end of a request                                      *)
(***************************************************************************)
\* the items whose resolution has ended needed at most 3 upstream calls each,
\* and so does the one being resolved
AtMostThreeCallsEach ==
    /\ Count(trace, "request") <= 3
    /\ attempt <= Retries + 1
    /\ \A k \in DOMAIN failures : failures[k] <= 3

\* C39: every request ends with exactly one response, after at most 3
\* upstream calls for each item; never two responses, and none only while the
\* handler is still running
C39_OneResponseEventually ==
    /\ <>(pc = "done" /\ Len(sent) = 1)
    /\ [](Len(sent) <= 1)
    /\ [](pc = "done" <=> Len(sent) = 1)
    /\ []AtMostThreeCallsEach
    /\ []NeverStuck

\* the response was sent after two items had needed three calls each
C39_Witness ==
    /\ pc = "done"
    /\ Len(sent) = 1
    /\ Len(failures) >= 2
    /\ \A k \in DOMAIN failures : failures[k] = 3

====
